---- MODULE Spec2Model ----
(***************************************************************************)
(* Trend-and-recommendation analysis engine (src/src/ml/dataPreprocessor.js *)
(* and src/src/ml/trendAnalyzer.js) as a state machine: the collections     *)
(* held by the caller are the state, every entry point is one action that   *)
(* stores what the call returns.                                            *)
(*                                                                          *)
(* JavaScript values are tagged records [t |-> tag, v |-> integer]:         *)
(*   undefined, null, number n, NaN, Infinity, the strings "" (emptystr),   *)
(*   a numeric-looking string (numstr n), an ISO date string of day n       *)
(*   (datestr n), any other text (text n), a Date object at day n (Date n)  *)
(*   and the Invalid Date object.  Days are days since 1970-01-01, the      *)
(*   process time zone is UTC and date strings carry no time of day.        *)
(***************************************************************************)
EXTENDS Integers, Sequences, FiniteSets, TLC

VARIABLES
    records,      \* collection handed to normalizeData / groupDataBy / createTimeSeries
    items,        \* ItemRecords handed to the analysis entry points
    orders,       \* OrderRecords handed to the analysis entry points
    withItems,    \* TRUE when every order record carries an `items` array
    timeFrame,    \* granularity argument of createTimeSeries
    userId,       \* userId argument of generateRecommendations
    normalized,   \* normalizeData(records)
    renormalized, \* normalizeData(normalizeData(records))
    series,       \* createTimeSeries(records, 'date', 'quantity', timeFrame)
    features,     \* createProductFeatures(items, orders)
    trends,       \* analyzeProductTrends(items, orders)
    customers,    \* analyzeCustomerPatterns(orders, users)
    users,        \* user records handed to analyzeCustomerPatterns
    grouped,      \* groupDataBy(records, 'item_id')
    passed,       \* what the caller passes as the first collection: "array" for the
                  \* collection held here, else the non-array value passed instead
    now,          \* the clock read by new Date(): today's day number
    raised,       \* TRUE when the call made last ended in an exception
    recs,         \* generateRecommendations(features, orders, userId)
    last          \* name of the entry point called last ("none" before any call)

vars == <<records, items, orders, withItems, timeFrame, userId, normalized,
          renormalized, series, features, trends, customers, users, grouped,
          passed, now, raised, recs, last>>

-----------------------------------------------------------------------------
(* JavaScript values *)

Val(tag, n) == [t |-> tag, v |-> n]
Undefined == Val("undefined", 0)
Null == Val("null", 0)
NaN == Val("NaN", 0)
Infinity == Val("Infinity", 0)
InvalidDate == Val("InvalidDate", 0)
EmptyStr == Val("emptystr", 0)
Num(n) == Val("number", n)
NumStr(n) == Val("numstr", n)
DateStr(d) == Val("datestr", d)
Text(i) == Val("text", i)
DateObj(d) == Val("Date", d)

\* typeof v === 'string'
IsString(val) == val.t \in {"emptystr", "numstr", "datestr", "text"}

\* !v : undefined, null, NaN, 0 and "" are falsy; every object (a Date, even an
\* invalid one) and every other string or number is truthy
Falsy(val) ==
    \/ val.t \in {"undefined", "null", "NaN", "emptystr"}
    \/ val.t = "number" /\ val.v = 0

\* isNaN(string): Number("") is 0 and Number("12") is 12, every other string gives NaN
IsNaNString(val) == val.t \in {"datestr", "text"}

-----------------------------------------------------------------------------
(* The Date builtin: civil calendar of a day number *)

MsPerDay == 86400000

\* the civil date of day number z >= 0 (proleptic Gregorian calendar, in eras
\* of 400 years that start on March 1st)
Civil(z) ==
    LET shifted == z + 719468
        era == shifted \div 146097
        doe == shifted - era * 146097
        yoe == (doe - doe \div 1460 + doe \div 36524 - doe \div 146096) \div 365
        doy == doe - (365 * yoe + yoe \div 4 - yoe \div 100)
        mp == (5 * doy + 2) \div 153
        m == IF mp < 10 THEN mp + 3 ELSE mp - 9
    IN  [year |-> yoe + era * 400 + (IF m <= 2 THEN 1 ELSE 0),
         month |-> m,
         date |-> doy - (153 * mp + 2) \div 5 + 1]

\* Date.prototype.getFullYear
YearOfDay(d) == Civil(d).year

\* Date.prototype.getMonth() + 1
MonthOfDay(d) == Civil(d).month

\* Date.prototype.getDate
DateOfDay(d) == Civil(d).date

\* day number of the first day of the month of day d: new Date(year, month, 1)
MonthStart(d) == d - DateOfDay(d) + 1

\* Date.prototype.getDay of a day number: 1970-01-01 was a Thursday (4)
WeekDay(d) == (d + 4) % 7

\* parseFloat(v): "" has no leading number; an ISO date string "2024-01-10" has
\* the leading number 2024 (its year); a Date is first turned into its display
\* string ("Wed Jan 10 2024 ..."), which has none
parseFloat(val) ==
    CASE val.t = "number" -> val
      [] val.t = "numstr" -> Num(val.v)
      [] val.t = "Infinity" -> Infinity
      [] val.t = "datestr" -> Num(YearOfDay(val.v))
      [] OTHER -> NaN

\* new Date(v): a Date is copied, a number is milliseconds since the epoch, an
\* ISO date string parses, null is the epoch; "", any other text, undefined and
\* NaN give the Invalid Date.  (A numeric-looking string never gets here: in
\* a date field normalizeData has turned it into a number before.)
NewDate(val) ==
    CASE val.t = "Date" -> val
      [] val.t = "datestr" -> DateObj(val.v)
      [] val.t = "number" -> DateObj(val.v \div MsPerDay)
      [] val.t = "null" -> DateObj(0)
      [] OTHER -> InvalidDate

-----------------------------------------------------------------------------
(* Array builtins *)

\* Array.prototype.sort with a comparator that is negative exactly when
\* Before(a, b): the sort is stable, elements that compare equal keep their order
StableSort(list, Before(_, _)) ==
    LET Rank(i) == 1 + Cardinality({j \in 1..Len(list) :
                        \/ Before(list[j], list[i])
                        \/ ~Before(list[i], list[j]) /\ j < i})
    IN  [r \in 1..Len(list) |-> list[CHOOSE i \in 1..Len(list) : Rank(i) = r]]

\* Array.prototype.map: the array of the F(element)
ArrayMap(list, F(_)) == [k \in 1..Len(list) |-> F(list[k])] \o <<>>

\* Array.prototype.filter
ArrayFilter(list, Keep(_)) == SelectSeq(list \o <<>>, Keep)

Min2(a, b) == IF a <= b THEN a ELSE b
Max2(a, b) == IF a >= b THEN a ELSE b

\* .slice(0, n)
Slice(list, n) == SubSeq(list, 1, Min2(n, Len(list)))

\* the property key an object is indexed with: String(v)
PropertyKey(val) == IF val.t = "number" THEN NumStr(val.v) ELSE val

\* v || d for a v that is a number or absent
OrDefault(val, d) == IF Falsy(val) THEN d ELSE val.v

\* position of the entry with this id in a list of records with an id field, 0 if none
RECURSIVE IndexOfId(_, _)
IndexOfId(list, id) ==
    IF Len(list) = 0 THEN 0
    ELSE IF list[Len(list)].id = id THEN Len(list)
    ELSE IndexOfId(SubSeq(list, 1, Len(list) - 1), id)

-----------------------------------------------------------------------------
(* DataPreprocessor.normalizeData *)

\* key !== 'order_id' && key !== 'user_id' && key !== 'item_id' &&
\* !key.includes('name') && !key.includes('code'), over the field names of the
\* model; no other field name (external_id, quantity, price, ...) passes
KeepsString(key) ==
    \/ key \in {"order_id", "user_id", "item_id"}
    \/ key \in {"item_name", "user_name", "name"}
    \/ key \in {"calling_code", "referral_code"}

\* key.includes('date') || key.includes('created_at') || key.includes('updated_at')
\* || key.includes('timestamp'), over the field names of the model
IsDateKey(key) == key \in {"date", "created_at", "updated_at", "timestamp"}

\* JSON.parse(JSON.stringify(v)) of one field value: NaN and Infinity are written
\* as null, a Date as its ISO string (toJSON), the Invalid Date as null, and a
\* field holding undefined is left out (so reads give undefined again)
JsonValue(val) ==
    CASE val.t \in {"NaN", "Infinity", "InvalidDate"} -> Null
      [] val.t = "Date" -> DateStr(val.v)
      [] OTHER -> val

\* JSON.parse(JSON.stringify(item)) of one record
JsonRecord(item) == [f \in DOMAIN item |-> JsonValue(item[f])]

\* an element of a collection is a record, or (in an ill-formed collection) a
\* plain value such as null or a number
IsRecord(item) == "t" \notin DOMAIN item

\* JSON.parse(JSON.stringify(item)) of one element; undefined is written as null
JsonElement(item) ==
    IF IsRecord(item) THEN JsonRecord(item)
    ELSE IF item.t = "undefined" THEN Null
    ELSE JsonValue(item)

JsonCopy(data) == ArrayMap(data, JsonElement)

\* A deep copy that shares its records with the argument: what
\* processedData = data (or [...data]) would give
DeepCopyShared(data) == [val |-> data, shared |-> TRUE]

\* const processedData = JSON.parse(JSON.stringify(data)): a structure of its
\* own, no record of which is a record of data
DeepCopy(data) == [val |-> JsonCopy(data), shared |-> FALSE]

\* the two conversions applied to item[key], in the order of the code
NormalizeValue(key, val) ==
    LET asNumber == IF IsString(val) /\ ~IsNaNString(val) /\ ~KeepsString(key)
                    THEN parseFloat(val) ELSE val
    IN  IF IsString(asNumber) /\ IsDateKey(key) THEN NewDate(asNumber) ELSE asNumber

\* Object.keys(item).forEach(key => ...) on one record of processedData
NormalizeRecord(item) == [f \in DOMAIN item |-> NormalizeValue(f, item[f])]

\* Object.keys(item) throws a TypeError on null; a number has no keys
ObjectKeysThrows(item) == ~IsRecord(item) /\ item.t \in {"null", "undefined"}

\* the callback of processedData.forEach on one element
NormalizeElement(item) == IF IsRecord(item) THEN NormalizeRecord(item) ELSE item

\* the forEach ends in the TypeError of Object.keys
NormalizeThrows(data) ==
    \E i \in 1..Len(data) : ObjectKeysThrows(JsonElement(data[i]))

\* the forEach over processedData, and what it leaves in the argument: the
\* writes item[key] = ... land in processedData, and in data only if the two
\* share their records
NormalizeCopy(data, processedData, out) ==
    [ret |-> out, arg |-> IF processedData.shared THEN out ELSE data]

\* One call of normalizeData: ret is the returned array, arg what the
\* argument holds after the call
normalizeDataCall(data) ==
    IF Len(data) = 0 THEN [ret |-> <<>>, arg |-> data]
    ELSE NormalizeCopy(data, DeepCopy(data),
                       ArrayMap(DeepCopy(data).val, NormalizeElement))

normalizeData(data) == normalizeDataCall(data).ret

-----------------------------------------------------------------------------
(* Strings built by the code: sequences of character codes, ordered as       *)
(* String.prototype.localeCompare orders them ('-' before digits before     *)
(* letters)                                                                 *)

Hyphen == -1
LetterA == 10
LetterN == 23
LetterW == 32

RECURSIVE Digits(_)
\* the decimal digits of n >= 0, as `${n}` writes them
Digits(n) == IF n < 10 THEN <<n>> ELSE Digits(n \div 10) \o <<n % 10>>

RECURSIVE PadStart(_, _, _)
\* String.prototype.padStart(width, c)
PadStart(str, width, c) ==
    IF Len(str) >= width THEN str ELSE PadStart(<<c>> \o str, width, c)

\* `${NaN}`
NaNText == <<LetterN, LetterA, LetterN>>

RECURSIVE StrLess(_, _)
\* a.localeCompare(b) < 0
StrLess(a, b) ==
    IF Len(b) = 0 THEN FALSE
    ELSE IF Len(a) = 0 THEN TRUE
    ELSE IF Head(a) # Head(b) THEN Head(a) < Head(b)
    ELSE StrLess(Tail(a), Tail(b))

-----------------------------------------------------------------------------
(* DataPreprocessor.createTimeSeries *)

\* date.toISOString() throws a RangeError on the Invalid Date
ToISOStringThrows(date) == date.t = "InvalidDate"

\* date.toISOString().split('T')[0]
IsoDay(date) ==
    PadStart(Digits(YearOfDay(date.v)), 4, 0) \o <<Hyphen>> \o
    PadStart(Digits(MonthOfDay(date.v)), 2, 0) \o <<Hyphen>> \o
    PadStart(Digits(DateOfDay(date.v)), 2, 0)

\* Math.ceil((date.getDate() + new Date(year, month, 1).getDay()) / 7)
WeekNum(date) ==
    (DateOfDay(date.v) + WeekDay(MonthStart(date.v)) + 6) \div 7

\* `${date.getFullYear()}-W${weekNum}`
WeekKey(date) ==
    IF date.t = "InvalidDate" THEN NaNText \o <<Hyphen, LetterW>> \o NaNText
    ELSE Digits(YearOfDay(date.v)) \o <<Hyphen, LetterW>> \o Digits(WeekNum(date))

\* `${date.getFullYear()}-${String(date.getMonth() + 1).padStart(2, '0')}`
MonthKey(date) ==
    IF date.t = "InvalidDate" THEN NaNText \o <<Hyphen>> \o NaNText
    ELSE Digits(YearOfDay(date.v)) \o <<Hyphen>> \o PadStart(Digits(MonthOfDay(date.v)), 2, 0)

\* the switch on timeFrame.toLowerCase(); 'day' and the default use toISOString
TimeKey(date, frame) ==
    CASE frame = "week" -> WeekKey(date)
      [] frame = "month" -> MonthKey(date)
      [] OTHER -> IsoDay(date)

TimeKeyThrows(date, frame) == frame \notin {"week", "month"} /\ ToISOStringThrows(date)

\* if (!item[timeField]) return;
SkipsItem(item, timeField) == Falsy(item[timeField])

\* parseFloat(item[valueField]) || 0, a number of the model's integers
ValueOf(item, valueField) ==
    LET parsed == parseFloat(item[valueField])
    IN  IF Falsy(parsed) THEN 0 ELSE parsed.v

RECURSIVE AddToGroups(_, _, _)
\* timeGroups after one more item: the groups in insertion order
AddToGroups(groups, key, value) ==
    IF Len(groups) = 0
    THEN <<[date |-> key, count |-> 1, sum |-> value, min |-> value, max |-> value]>>
    ELSE IF Head(groups).date = key
    THEN <<[date |-> key,
            count |-> Head(groups).count + 1,
            sum |-> Head(groups).sum + value,
            min |-> Min2(Head(groups).min, value),
            max |-> Max2(Head(groups).max, value)]>> \o Tail(groups)
    ELSE <<Head(groups)>> \o AddToGroups(Tail(groups), key, value)

\* the body of processedData.forEach(item => ...)
TimeGroupStep(groups, item, valueField, frame) ==
    IF SkipsItem(item, "date") THEN groups
    ELSE AddToGroups(groups, TimeKey(NewDate(item["date"]), frame), ValueOf(item, valueField))

RECURSIVE TimeGroups(_, _, _, _)
\* timeGroups after the first n items
TimeGroups(data, n, valueField, frame) ==
    IF n = 0 THEN <<>>
    ELSE TimeGroupStep(TimeGroups(data, n - 1, valueField, frame), data[n], valueField, frame)

\* result.sort((a, b) => a.date.localeCompare(b.date))
SortByDate(buckets) == StableSort(buckets, LAMBDA a, b : StrLess(a.date, b.date))

\* the series of the normalised records: threw tells that the call ended in
\* the RangeError of toISOString; the average of a bucket is sum / count
TimeSeriesOf(processedData, valueField, frame) ==
    IF \E i \in 1..Len(processedData) :
           /\ ~SkipsItem(processedData[i], "date")
           /\ TimeKeyThrows(NewDate(processedData[i]["date"]), frame)
    THEN [threw |-> TRUE, buckets |-> <<>>]
    ELSE [threw |-> FALSE,
          buckets |-> SortByDate(TimeGroups(processedData, Len(processedData),
                                            valueField, frame))]

\* createTimeSeries(data, 'date', valueField, frame)
createTimeSeries(data, valueField, frame) ==
    IF Len(data) = 0 THEN [threw |-> FALSE, buckets |-> <<>>]
    ELSE TimeSeriesOf(normalizeData(data), valueField, frame)

-----------------------------------------------------------------------------
(* DataPreprocessor.groupDataBy *)

\* the body of data.forEach(item => ...): an item whose key value is falsy is
\* left out; the groups are in the insertion order of their keys
GroupStep(groups, item, groupBy) ==
    IF Falsy(item[groupBy]) THEN groups
    ELSE IF IndexOfId(groups, PropertyKey(item[groupBy])) = 0
    THEN Append(groups, [id |-> PropertyKey(item[groupBy]), items |-> <<item>>])
    ELSE [groups EXCEPT ![IndexOfId(groups, PropertyKey(item[groupBy]))].items = Append(@, item)]

RECURSIVE GroupItems(_, _, _)
GroupItems(data, n, groupBy) ==
    IF n = 0 THEN <<>> ELSE GroupStep(GroupItems(data, n - 1, groupBy), data[n], groupBy)

groupDataBy(data, groupBy) == GroupItems(data, Len(data), groupBy)

-----------------------------------------------------------------------------
(* DataPreprocessor.createProductFeatures *)

\* if (!productFeatures[productId]) productFeatures[productId] = {...}
WithEntry(feats, productId) ==
    IF IndexOfId(feats, productId) # 0 THEN feats
    ELSE Append(feats, [id |-> productId, purchase_count |-> 0, total_quantity |-> 0,
                        price_sum |-> 0, orders |-> {}, common_purchases |-> <<>>])

\* a first pass that passes over a record without quantity or price
CountedIfComplete(feats, item) ==
    IF Falsy(item.quantity) \/ Falsy(item.price) THEN feats
    ELSE [feats EXCEPT ![IndexOfId(feats, PropertyKey(item.item_id))] =
             [@ EXCEPT !.purchase_count = @ + 1,
                       !.total_quantity = @ + item.quantity.v,
                       !.price_sum = @ + item.price.v,
                       !.orders = @ \cup {item.order_id}]]

\* the four counters of the first pass
Counted(feats, item) ==
    [feats EXCEPT ![IndexOfId(feats, PropertyKey(item.item_id))] =
        [@ EXCEPT !.purchase_count = @ + 1,
                  !.total_quantity = @ + OrDefault(item.quantity, 1),
                  !.price_sum = @ + OrDefault(item.price, 0),
                  !.orders = @ \cup {item.order_id}]]

\* the body of the first pass
CountItem(feats, item) == Counted(WithEntry(feats, PropertyKey(item.item_id)), item)

RECURSIVE FirstPass(_, _)
\* first pass over processedItems[1..n]
FirstPass(processedItems, n) ==
    IF n = 0 THEN <<>> ELSE CountItem(FirstPass(processedItems, n - 1), processedItems[n])

\* the filter without its order test: every other product counts
OtherProductOfAnyOrder(item, otherItem) == otherItem.item_id # item.item_id

\* the filter without its product test: every record of the order counts
AnyItemOfOrder(item, otherItem) == otherItem.order_id = item.order_id

\* the filter of the second pass, seen from item and otherItem
OtherProductOfOrder(item, otherItem) ==
    otherItem.order_id = item.order_id /\ otherItem.item_id # item.item_id

\* common_purchases[otherProductId]++ (created at 0 when absent)
CountCoPurchase(common, otherProductId) ==
    IF IndexOfId(common, otherProductId) = 0
    THEN Append(common, [id |-> otherProductId, count |-> 1])
    ELSE [common EXCEPT ![IndexOfId(common, otherProductId)].count = @ + 1]

RECURSIVE CoPurchasesOfItem(_, _, _, _)
\* orderProducts.forEach(...) of one item, over the other items 1..m
CoPurchasesOfItem(common, processedItems, item, m) ==
    IF m = 0 THEN common
    ELSE LET before == CoPurchasesOfItem(common, processedItems, item, m - 1)
         IN  IF OtherProductOfOrder(item, processedItems[m])
             THEN CountCoPurchase(before, PropertyKey(processedItems[m].item_id))
             ELSE before

\* the body of the second pass
PairItem(feats, processedItems, item) ==
    [feats EXCEPT ![IndexOfId(feats, PropertyKey(item.item_id))].common_purchases =
        CoPurchasesOfItem(@, processedItems, item, Len(processedItems))]

RECURSIVE SecondPass(_, _, _)
\* second pass over processedItems[1..n]
SecondPass(feats, processedItems, n) ==
    IF n = 0 THEN feats
    ELSE PairItem(SecondPass(feats, processedItems, n - 1), processedItems, processedItems[n])

\* .sort((a, b) => b[1] - a[1])
SortByCount(list) == StableSort(list, LAMBDA a, b : a.count > b.count)

TopCoPurchases == 5

\* the finalising loop: average_price is price_sum / purchase_count, orders
\* becomes the size of the set, common_purchases the five most frequent
Finalize(product) ==
    [product EXCEPT !.orders = Cardinality(@),
                    !.common_purchases = Slice(SortByCount(@), TopCoPurchases)]

\* the two passes and the finalising loop over the normalised items
FeaturesOf(processedItems) ==
    ArrayMap(SecondPass(FirstPass(processedItems, Len(processedItems)),
                        processedItems, Len(processedItems)),
             Finalize)

\* createProductFeatures(orderItems, orders): the feature table in the
\* insertion order of its keys.  orders is only normalised into orderMap,
\* which nothing reads.
createProductFeatures(orderItems, orderRecords) == FeaturesOf(normalizeData(orderItems))

-----------------------------------------------------------------------------
(* TrendAnalyzer.generateRecommendations *)

TopRecommendations == 5

\* productFeatures[key], or a feature without common_purchases when absent
NoFeature == [id |-> Undefined, purchase_count |-> 0, total_quantity |-> 0,
              price_sum |-> 0, orders |-> 0, common_purchases |-> <<>>]
FeatureOf(productFeatures, key) ==
    IF IndexOfId(productFeatures, key) = 0 THEN NoFeature
    ELSE productFeatures[IndexOfId(productFeatures, key)]

\* one recommendation of the popularity mode
PopularEntry(product) ==
    [id |-> product.id, score |-> product.purchase_count,
     reason |-> "Popular product", with |-> Undefined]

\* the popularity mode without its sort: the first five in table order
PopularUnsorted(productFeatures) ==
    ArrayMap(Slice(productFeatures, TopRecommendations), PopularEntry)

\* generatePopularRecommendations: Object.values gives an array of its own,
\* sorted by descending purchase_count, cut to five and mapped
generatePopularRecommendations(productFeatures) ==
    ArrayMap(Slice(StableSort(productFeatures,
                              LAMBDA a, b : a.purchase_count > b.purchase_count),
                   TopRecommendations),
             PopularEntry)

RECURSIVE AddDistinct(_, _)
\* Set.prototype.add of the values of a list, in order
AddDistinct(set, list) ==
    IF Len(list) = 0 THEN set
    ELSE AddDistinct(IF \E k \in 1..Len(set) : set[k] = Head(list)
                     THEN set ELSE Append(set, Head(list)),
                     Tail(list))

\* item.item_id || item._id (no record of the model has an _id)
ItemProduct(item) == IF Falsy(item.item_id) THEN Undefined ELSE item.item_id

\* the body of userOrders.forEach(order => { if (order.items) ... })
AddOrderProducts(userProducts, order) ==
    IF order.hasItems THEN AddDistinct(userProducts, ArrayMap(order.items, ItemProduct))
    ELSE userProducts

RECURSIVE UserProducts(_, _)
\* the Set userProducts, in insertion order, after userOrders[1..n]
UserProducts(userOrders, n) ==
    IF n = 0 THEN <<>> ELSE AddOrderProducts(UserProducts(userOrders, n - 1), userOrders[n])

\* a membership test that finds nothing: the filter on purchased products left out
AlreadyPurchasedNever(userProducts, id) == FALSE

\* userProducts.has(relatedProduct.id)
AlreadyPurchased(userProducts, id) == \E k \in 1..Len(userProducts) : userProducts[k] = id

\* the recommendations pushed for one purchased product
RelatedOf(productFeatures, userProducts, productId) ==
    ArrayMap(ArrayFilter(FeatureOf(productFeatures, PropertyKey(productId)).common_purchases,
                         LAMBDA related : ~AlreadyPurchased(userProducts, related.id)),
             LAMBDA related : [id |-> related.id, score |-> related.count,
                               reason |-> "Frequently bought with", with |-> productId])

RECURSIVE Related(_, _, _)
\* userProducts.forEach(productId => ...) over userProducts[1..n]
Related(productFeatures, userProducts, n) ==
    IF n = 0 THEN <<>>
    ELSE Related(productFeatures, userProducts, n - 1)
         \o RelatedOf(productFeatures, userProducts, userProducts[n])

\* a deduplication that keeps the occurrence met last
UniqueStepKeepLast(unique, rec) ==
    IF \E k \in 1..Len(unique) : unique[k].id = rec.id
    THEN [k \in 1..Len(unique) |-> IF unique[k].id = rec.id THEN rec ELSE unique[k]]
    ELSE Append(unique, rec)

\* the body of the seen / uniqueRecommendations loop
UniqueStep(unique, rec) ==
    IF \E k \in 1..Len(unique) : unique[k].id = rec.id THEN unique ELSE Append(unique, rec)

RECURSIVE Unique(_, _)
Unique(list, n) == IF n = 0 THEN <<>> ELSE UniqueStep(Unique(list, n - 1), list[n])

\* sort, deduplicate and cut the pushed recommendations
TopUnique(sorted) == Slice(Unique(sorted, Len(sorted)), TopRecommendations)

\* the personalized mode, from the Set of the customer's products
RecommendFor(productFeatures, userProducts) ==
    TopUnique(StableSort(Related(productFeatures, userProducts, Len(userProducts)),
                         LAMBDA a, b : a.score > b.score))

\* the branch taken once userId is known to be truthy
RecommendForOrders(productFeatures, userOrders) ==
    IF Len(userOrders) = 0 THEN generatePopularRecommendations(productFeatures)
    ELSE RecommendFor(productFeatures, UserProducts(userOrders, Len(userOrders)))

\* generateRecommendations(productFeatures, recentOrders, userId)
generateRecommendations(productFeatures, recentOrders, uid) ==
    IF Len(productFeatures) = 0
    THEN [error |-> "Insufficient product data for recommendations", list |-> <<>>]
    ELSE IF Falsy(uid)
    THEN [error |-> "none", list |-> generatePopularRecommendations(productFeatures)]
    ELSE [error |-> "none",
          list |-> RecommendForOrders(productFeatures,
                                      ArrayFilter(recentOrders,
                                                  LAMBDA order : order.user_id = uid))]

\* recentOrders as the caller hands it over: the flat order records of the
\* record source, or (embedded) each with the item records of the order as
\* its `items` array
RecentOrders(orderRecords, itemRecords, embedded) ==
    ArrayMap(orderRecords,
             LAMBDA order :
                 [order_id |-> order.order_id, user_id |-> order.user_id,
                  date |-> order.date, hasItems |-> embedded,
                  items |-> IF embedded
                            THEN ArrayFilter(itemRecords,
                                             LAMBDA item : item.order_id = order.order_id)
                            ELSE <<>>])

-----------------------------------------------------------------------------
(* Numbers that are not integers: a quotient kept exact as n / d (d > 0), or  *)
(* one of the two values a division by zero gives.  The code computes in     *)
(* binary floating point; the model's quotients are exact.                  *)

Ratio(n, d) == [k |-> "finite", n |-> n, d |-> d]
RatioInfinity == [k |-> "Infinity", n |-> 0, d |-> 1]
RatioNaN == [k |-> "NaN", n |-> 0, d |-> 1]

\* ((last / first) - 1) * 100 for last = ln / ld >= 0 and first = fn / fd >= 0
PercentChange(ln, ld, fn, fd) ==
    IF fn = 0 THEN (IF ln = 0 THEN RatioNaN ELSE RatioInfinity)
    ELSE Ratio((ln * fd - fn * ld) * 100, ld * fn)

\* r > c and r < c for an integer c; every comparison with NaN is false
Above(r, c) == r.k = "Infinity" \/ (r.k = "finite" /\ r.n > c * r.d)
Below(r, c) == r.k = "finite" /\ r.n < c * r.d

AbsInt(n) == IF n < 0 THEN 0 - n ELSE n

\* Math.abs
AbsRatio(r) == [r EXCEPT !.n = AbsInt(@)]

\* a - b < 0 and a - b > 0 in a comparator (a difference that is NaN counts as 0)
RatioLess(a, b) ==
    \/ a.k = "finite" /\ b.k = "Infinity"
    \/ a.k = "finite" /\ b.k = "finite" /\ a.n * b.d < b.n * a.d

\* Number.prototype.toFixed(2), read back with parseFloat: the nearest
\* hundredth, halves away from zero; "Infinity" and "NaN" stay as they are
ToFixed2(r) ==
    IF r.k # "finite" THEN r
    ELSE LET hundredths == (2 * AbsInt(r.n) * 100 + r.d) \div (2 * r.d)
         IN  Ratio(IF r.n < 0 THEN 0 - hundredths ELSE hundredths, 100)

RECURSIVE SumOf(_)
\* reduce((sum, x) => sum + x, 0)
SumOf(list) == IF Len(list) = 0 THEN 0 ELSE Head(list) + SumOf(Tail(list))

-----------------------------------------------------------------------------
(* TrendAnalyzer.analyzeProductTrends *)

MinDataPoints == 5
MinMonths == 3
TopTrends == 5
TopProducts == 10

\* parseFloat(v) || d for the integers of the model
ParsedOr(val, d) == IF Falsy(parseFloat(val)) THEN d ELSE parseFloat(val).v

\* one entry of productTotals; averagePrice is totalRevenue / totalQuantity
ProductTotal(group) ==
    [id |-> group.id,
     totalQuantity |-> SumOf(ArrayMap(group.items,
                                      LAMBDA item : ParsedOr(item.quantity, 1))),
     totalRevenue |-> SumOf(ArrayMap(group.items,
                                     LAMBDA item : ParsedOr(item.price, 0)
                                                   * ParsedOr(item.quantity, 1))),
     orderCount |-> Cardinality({group.items[k].order_id : k \in 1..Len(group.items)})]

\* Array.from({length: n}, (_, i) => i)
XValues(n) == [i \in 1..n |-> i - 1] \o <<>>

\* the two sums of the least-squares slope, each scaled by n * n so that the
\* means xMean = sx / n and yMean = sy / n need no division
SlopeSums(xValues, yValues, n, sx, sy) ==
    [numerator |-> SumOf([i \in 1..n |-> (n * xValues[i] - sx) * (n * yValues[i] - sy)] \o <<>>),
     denominator |-> SumOf([i \in 1..n |-> (n * xValues[i] - sx) * (n * xValues[i] - sx)] \o <<>>)]

\* slope = denominator !== 0 ? numerator / denominator : 0
SlopeFrom(sums) ==
    IF sums.denominator # 0 THEN Ratio(sums.numerator, sums.denominator) ELSE Ratio(0, 1)

Slope(yValues) ==
    SlopeFrom(SlopeSums(XValues(Len(yValues)), yValues, Len(yValues),
                        SumOf(XValues(Len(yValues))), SumOf(yValues)))

\* a classification by either signal, the two tests not chained
TrendDirectionEither(slope, growthRate) ==
    [growing |-> Above(slope, 0) \/ Above(growthRate, 10),
     declining |-> Below(slope, 0) \/ Below(growthRate, -10)]

\* if (slope > 0 && growthRate > 10) ... else if (slope < 0 && growthRate < -10) ...
TrendDirection(slope, growthRate) ==
    LET growing == Above(slope, 0) /\ Above(growthRate, 10)
    IN  [growing |-> growing,
         declining |-> ~growing /\ Below(slope, 0) /\ Below(growthRate, -10)]

\* the change over the last month only, as a percentage
GrowthRateOfLastStep(monthlySales) ==
    IF Len(monthlySales) > 1
    THEN PercentChange(monthlySales[Len(monthlySales)].sum, 1,
                       monthlySales[Len(monthlySales) - 1].sum, 1)
    ELSE Ratio(0, 1)

\* monthlySales[n - 1].sum / monthlySales[0].sum, as a percentage change
GrowthRate(monthlySales) ==
    IF Len(monthlySales) > 1
    THEN PercentChange(monthlySales[Len(monthlySales)].sum, 1, monthlySales[1].sum, 1)
    ELSE Ratio(0, 1)

\* lastPrice / firstPrice over the bucket averages, as a percentage change
PriceDiff(priceTimeSeries) ==
    IF Len(priceTimeSeries) > 1
    THEN PercentChange(priceTimeSeries[Len(priceTimeSeries)].sum,
                       priceTimeSeries[Len(priceTimeSeries)].count,
                       priceTimeSeries[1].sum, priceTimeSeries[1].count)
    ELSE Ratio(0, 1)

\* what one iteration of the time-series loop pushes; analysed is FALSE when
\* one of the two minimums ends the iteration
TrendOf(group, monthlySales, priceTimeSeries, analysed, direction, growthRate, priceDiff) ==
    [id |-> group.id,
     growing |-> analysed /\ direction.growing,
     declining |-> analysed /\ direction.declining,
     growthRate |-> ToFixed2(growthRate),
     monthlySales |-> monthlySales,
     priceTrend |-> analysed /\ Len(priceTimeSeries) > 1 /\ Above(AbsRatio(priceDiff), 5),
     priceChangePercent |-> ToFixed2(priceDiff),
     priceTimeSeries |-> priceTimeSeries]

\* the second minimum alone
AnalysedByMonths(group, monthlySales) == Len(monthlySales) >= MinMonths

\* neither if (items.length < 5) return nor if (monthlySales.length < 3) return
\* ends the iteration
Analysed(group, monthlySales) ==
    Len(group.items) >= MinDataPoints /\ Len(monthlySales) >= MinMonths

TrendOfSeries(group, monthlySales, priceTimeSeries) ==
    TrendOf(group, monthlySales, priceTimeSeries, Analysed(group, monthlySales),
            TrendDirection(Slope(ArrayMap(monthlySales, LAMBDA m : m.sum)),
                           GrowthRate(monthlySales)),
            GrowthRate(monthlySales), PriceDiff(priceTimeSeries))

\* one iteration of Object.entries(itemsByProduct).forEach(...)
ProductTrend(group) ==
    TrendOfSeries(group, createTimeSeries(group.items, "quantity", "month").buckets,
                  createTimeSeries(group.items, "price", "month").buckets)

GrowthEntry(trend) ==
    [id |-> trend.id, growthRate |-> trend.growthRate, monthlySales |-> trend.monthlySales]

PriceEntry(trend) ==
    [id |-> trend.id, priceChangePercent |-> trend.priceChangePercent,
     priceTimeSeries |-> trend.priceTimeSeries]

\* the products by the number of their orders
ByOrderCount(a, b) == a.orderCount > b.orderCount

\* (a, b) => b.totalQuantity - a.totalQuantity is negative
ByTotalQuantity(a, b) == a.totalQuantity > b.totalQuantity

\* the comparison of the declining list, used for the growing one
ByGrowthAscending(a, b) == RatioLess(a.growthRate, b.growthRate)

\* (a, b) => parseFloat(b.growthRate) - parseFloat(a.growthRate) is negative
ByGrowthDescending(a, b) == RatioLess(b.growthRate, a.growthRate)

\* the four lists, sorted and cut
TrendLists(productTotals, all) ==
    [error |-> "none",
     topProducts |->
         Slice(StableSort(productTotals, ByTotalQuantity), TopProducts),
     growingProducts |->
         Slice(StableSort(ArrayMap(ArrayFilter(all, LAMBDA t : t.growing), GrowthEntry),
                          ByGrowthDescending),
               TopTrends),
     decliningProducts |->
         Slice(StableSort(ArrayMap(ArrayFilter(all, LAMBDA t : t.declining), GrowthEntry),
                          LAMBDA a, b : RatioLess(a.growthRate, b.growthRate)),
               TopTrends),
     priceTrends |->
         Slice(StableSort(ArrayMap(ArrayFilter(all, LAMBDA t : t.priceTrend), PriceEntry),
                          LAMBDA a, b : RatioLess(AbsRatio(b.priceChangePercent),
                                                  AbsRatio(a.priceChangePercent))),
               TopTrends)]

TrendsOfGroups(itemsByProduct) ==
    TrendLists(ArrayMap(itemsByProduct, ProductTotal), ArrayMap(itemsByProduct, ProductTrend))

\* the test with its second half left out
InsufficientItems(normalizedItems, normalizedOrders) == Len(normalizedItems) = 0

\* !normalizedItems.length || !normalizedOrders.length
InsufficientData(normalizedItems, normalizedOrders) ==
    Len(normalizedItems) = 0 \/ Len(normalizedOrders) = 0

TrendsOf(normalizedItems, normalizedOrders) ==
    IF InsufficientData(normalizedItems, normalizedOrders)
    THEN [error |-> "Insufficient data for analysis", topProducts |-> <<>>,
          growingProducts |-> <<>>, decliningProducts |-> <<>>, priceTrends |-> <<>>]
    ELSE TrendsOfGroups(groupDataBy(normalizedItems, "item_id"))

\* analyzeProductTrends(items, orders)
analyzeProductTrends(itemRecords, orderRecords) ==
    TrendsOf(normalizeData(itemRecords), normalizeData(orderRecords))

-----------------------------------------------------------------------------
(* TrendAnalyzer.analyzeCustomerPatterns (the delivery and payment           *)
(* preference tables are not part of the model); today is the day number     *)
(* that new Date() gives while the call runs                                 *)

TopCustomers == 10

\* the order dates in the order of the records
OrderDatesAsGiven(userOrders) == ArrayMap(userOrders, LAMBDA order : NewDate(order.date))

\* userOrders.map(order => new Date(order.date)).sort((a, b) => a - b): a
\* difference with the Invalid Date is NaN, which the sort takes as 0
OrderDates(userOrders) ==
    StableSort(ArrayMap(userOrders, LAMBDA order : NewDate(order.date)),
               LAMBDA a, b : a.t = "Date" /\ b.t = "Date" /\ a.v < b.v)

\* Math.round((later - earlier) / (1000 * 60 * 60 * 24)): the two timestamps
\* are whole days, MsPerDay milliseconds each
DaysBetween(earlier, later) == later.v - earlier.v

\* customerAgeInDays: days between the first and the last order
CustomerAge(orderDates) ==
    IF Len(orderDates) <= 1 THEN Ratio(0, 1)
    ELSE IF \E i \in 1..Len(orderDates) : orderDates[i].t # "Date" THEN RatioNaN
    ELSE Ratio(DaysBetween(orderDates[1], orderDates[Len(orderDates)]), 1)

\* avgDaysBetweenOrders = totalDays / (orderDates.length - 1)
AvgDaysBetween(orderDates) ==
    IF Len(orderDates) <= 1 THEN Ratio(0, 1)
    ELSE IF \E i \in 1..Len(orderDates) : orderDates[i].t # "Date" THEN RatioNaN
    ELSE Ratio(SumOf([i \in 1..(Len(orderDates) - 1) |->
                          DaysBetween(orderDates[i], orderDates[i + 1])] \o <<>>),
               Len(orderDates) - 1)

\* daysSinceLastOrder: Math.round((new Date() - lastOrder) / (1000 * 60 * 60 * 24))
DaysSinceLastOrder(orderDates, today) ==
    IF orderDates[Len(orderDates)].t # "Date" THEN RatioNaN
    ELSE Ratio(today - orderDates[Len(orderDates)].v, 1)

\* the metrics of one customer, from the orders grouped under their user_id
CustomerMetricOf(group, orderDates, today) ==
    [id |-> group.id,
     orderCount |-> Len(group.items),
     totalSpent |-> SumOf(ArrayMap(group.items, LAMBDA order : ParsedOr(order.amount, 0))),
     firstOrder |-> orderDates[1],
     lastOrder |-> orderDates[Len(orderDates)],
     daysSinceLastOrder |-> DaysSinceLastOrder(orderDates, today),
     customerAgeInDays |-> CustomerAge(orderDates),
     avgDaysBetweenOrders |-> AvgDaysBetween(orderDates)]

\* the callback of Object.entries(ordersByUser).map(...)
CustomerMetric(group, today) == CustomerMetricOf(group, OrderDates(group.items), today)

\* the body of customerMetrics.forEach(customer => ...) that fills
\* customersByFirstPurchaseMonth, the months in insertion order
CohortStepAt(cohorts, customer, monthKey) ==
    IF IndexOfId(cohorts, monthKey) = 0
    THEN Append(cohorts, [id |-> monthKey, customers |-> <<customer>>])
    ELSE [cohorts EXCEPT ![IndexOfId(cohorts, monthKey)].customers = Append(@, customer)]

CohortStep(cohorts, customer) ==
    CohortStepAt(cohorts, customer, MonthKey(NewDate(customer.firstOrder)))

RECURSIVE CustomersByFirstPurchaseMonth(_, _)
CustomersByFirstPurchaseMonth(customerMetrics, n) ==
    IF n = 0 THEN <<>>
    ELSE CohortStep(CustomersByFirstPurchaseMonth(customerMetrics, n - 1), customerMetrics[n])

\* the share of repeat customers as a fraction, not scaled to a percentage
RetentionShare(repeatCustomers, newCustomers) ==
    ToFixed2(Ratio(repeatCustomers, newCustomers))

\* (repeatCustomers / customers.length * 100).toFixed(2)
RetentionRate(repeatCustomers, newCustomers) ==
    ToFixed2(Ratio(repeatCustomers * 100, newCustomers))

CohortOf(entry, repeatCustomers) ==
    [cohort |-> entry.id,
     newCustomers |-> Len(entry.customers),
     repeatCustomers |-> repeatCustomers,
     retentionRate |-> RetentionRate(repeatCustomers, Len(entry.customers))]

\* the callback of Object.entries(customersByFirstPurchaseMonth).map(...)
Cohort(entry) ==
    CohortOf(entry, Len(ArrayFilter(entry.customers, LAMBDA c : c.orderCount > 1)))

\* .sort((a, b) => a.cohort.localeCompare(b.cohort))
SortByCohort(cohorts) == StableSort(cohorts, LAMBDA a, b : StrLess(a.cohort, b.cohort))

\* a chain without its first test: a single order falls into the second band
FrequencyBandFromTwo(orderCount) ==
    IF orderCount <= 3 THEN 2
    ELSE IF orderCount <= 6 THEN 3
    ELSE IF orderCount <= 10 THEN 4
    ELSE 5

\* the if / else-if chain over customer.orderCount: the index of the band
FrequencyBand(orderCount) ==
    IF orderCount = 1 THEN 1
    ELSE IF orderCount <= 3 THEN 2
    ELSE IF orderCount <= 6 THEN 3
    ELSE IF orderCount <= 10 THEN 4
    ELSE 5

FrequencyNames == <<"1 order", "2-3 orders", "4-6 orders", "7-10 orders", "10+ orders">>

\* (count / customerMetrics.length * 100).toFixed(2); 0 / 0 is NaN
FrequencyShare(count, total) ==
    IF total = 0 THEN RatioNaN ELSE ToFixed2(Ratio(count * 100, total))

FrequencyEntry(band, count, total) ==
    [frequency |-> FrequencyNames[band], count |-> count,
     percentage |-> FrequencyShare(count, total)]

PurchaseFrequency(customerMetrics) ==
    [band \in 1..Len(FrequencyNames) |->
        FrequencyEntry(band,
                       Cardinality({k \in 1..Len(customerMetrics) :
                                       FrequencyBand(customerMetrics[k].orderCount) = band}),
                       Len(customerMetrics))] \o <<>>

\* the tables built from customerMetrics once it has been sorted (in place) by
\* descending totalSpent
CustomerAnalysis(customerMetrics) ==
    [error |-> "none",
     topCustomers |-> Slice(customerMetrics, TopCustomers),
     customerRetention |->
         SortByCohort(ArrayMap(CustomersByFirstPurchaseMonth(customerMetrics,
                                                             Len(customerMetrics)),
                               Cohort)),
     purchaseFrequency |-> PurchaseFrequency(customerMetrics)]

CustomersOf(normalizedOrders, normalizedUsers, today) ==
    IF Len(normalizedOrders) = 0
    THEN [error |-> "Insufficient order data for analysis", topCustomers |-> <<>>,
          customerRetention |-> <<>>, purchaseFrequency |-> <<>>]
    ELSE CustomerAnalysis(StableSort(ArrayMap(groupDataBy(normalizedOrders, "user_id"),
                                              LAMBDA group : CustomerMetric(group, today)),
                                     LAMBDA a, b : a.totalSpent > b.totalSpent) \o <<>>)

\* analyzeCustomerPatterns(orders, users)
analyzeCustomerPatterns(orderRecords, userRecords, today) ==
    CustomersOf(normalizeData(orderRecords), normalizeData(userRecords), today)

-----------------------------------------------------------------------------
(* The entry points on whatever value the caller passes as the collection:   *)
(* kind is "array" when it is the array data, and else names the value       *)
(* passed in its place (undefined, null, a number, or the object {})         *)

NonArrays == {"undefined", "null", "number", "object"}

\* !data || !Array.isArray(data)
NotAnArray(kind) == kind # "array"

\* normalizeData(value): every value that is not an array gets the answer []
normalizeDataOf(kind, data) == IF NotAnArray(kind) THEN <<>> ELSE normalizeData(data)

\* normalizeData(value) ends in an exception
normalizeDataRaises(kind, data) == ~NotAnArray(kind) /\ NormalizeThrows(data)

\* what the call leaves in the array it was given
ArgumentAfter(kind, data) == IF NotAnArray(kind) THEN data ELSE normalizeDataCall(data).arg

\* groupDataBy(value, groupBy)
groupDataByOf(kind, data, groupBy) ==
    IF NotAnArray(kind) THEN <<>> ELSE groupDataBy(data, groupBy)

\* createTimeSeries(value, 'date', valueField, frame)
createTimeSeriesOf(kind, data, valueField, frame) ==
    IF NotAnArray(kind) THEN [threw |-> FALSE, buckets |-> <<>>]
    ELSE createTimeSeries(data, valueField, frame)

\* a feature table over the items whose order is among the orders: what a
\* lookup of item.order_id in orderMap would give
FeaturesOfKnownOrders(kind, orderItems, orderRecords) ==
    FeaturesOf(ArrayFilter(normalizeDataOf(kind, orderItems),
                           LAMBDA item : \E k \in 1..Len(orderRecords) :
                                            orderRecords[k].order_id = item.order_id))

\* createProductFeatures(value, orders): a falsy value returns {} at once, any
\* other is normalised to []
createProductFeaturesOf(kind, orderItems, orderRecords) ==
    FeaturesOf(normalizeDataOf(kind, orderItems))

\* analyzeProductTrends(value, orders)
analyzeProductTrendsOf(kind, itemRecords, orderRecords) ==
    TrendsOf(normalizeDataOf(kind, itemRecords), normalizeData(orderRecords))

\* analyzeCustomerPatterns(value, users)
analyzeCustomerPatternsOf(kind, orderRecords, userRecords, today) ==
    CustomersOf(normalizeDataOf(kind, orderRecords), normalizeData(userRecords), today)

\* generateRecommendations(value, recentOrders, userId):
\* !productFeatures || Object.keys(productFeatures).length === 0 holds of
\* undefined, null, a number and {} alike
generateRecommendationsOf(kind, productFeatures, recentOrders, uid) ==
    IF NotAnArray(kind)
    THEN [error |-> "Insufficient product data for recommendations", list |-> <<>>]
    ELSE generateRecommendations(productFeatures, recentOrders, uid)

-----------------------------------------------------------------------------
(* State before any call *)

\* 2024-05-01, a day after every date of the records
Today == 19814 + 30

NoSeries == [threw |-> FALSE, buckets |-> <<>>]
NoTrends == [error |-> "not called", topProducts |-> <<>>, growingProducts |-> <<>>,
             decliningProducts |-> <<>>, priceTrends |-> <<>>]
NoCustomers == [error |-> "not called", topCustomers |-> <<>>, customerRetention |-> <<>>,
                purchaseFrequency |-> <<>>]
NoRecs == [error |-> "not called", list |-> <<>>]

Blank ==
    /\ records = <<>> /\ items = <<>> /\ orders = <<>>
    /\ withItems = FALSE /\ timeFrame = "day" /\ userId = Undefined
    /\ normalized = <<>> /\ renormalized = <<>> /\ series = NoSeries
    /\ features = <<>> /\ trends = NoTrends /\ customers = NoCustomers
    /\ users = <<>> /\ grouped = <<>>
    /\ passed = "array" /\ now = Today /\ raised = FALSE
    /\ recs = NoRecs /\ last = "none"

-----------------------------------------------------------------------------
(* Specification SpecRecords: one raw collection, normalised, normalised     *)
(* again and aggregated into a time series                                  *)

MaxRecords == 2

\* 2024-01-10, 2024-02-01, 2024-03-01
SampleDays == {19732, 19754, 19783}

DateValues ==
    {Undefined, Null, EmptyStr, NumStr(0), Text(1)} \cup {DateStr(d) : d \in SampleDays}

QuantityValues == {Undefined, EmptyStr, NumStr(2), Num(1)}

RawRecords == [item_id : {Text(1)}, date : DateValues, quantity : QuantityValues]

TimeFrames == {"day", "week", "month"}

AddRecord ==
    /\ last = "none"
    /\ Len(records) < MaxRecords
    /\ \E r \in RawRecords : records' = Append(records, r)
    /\ UNCHANGED <<items, orders, withItems, timeFrame, userId, normalized,
                   renormalized, series, features, trends, customers, users,
                   grouped, recs, passed, now, raised, last>>

\* normalized = DataPreprocessor.normalizeData(records); nothing is assigned
\* when the call raises
NormalizeData ==
    /\ raised' = normalizeDataRaises(passed, records)
    /\ normalized' = IF normalizeDataRaises(passed, records) THEN normalized
                     ELSE normalizeDataOf(passed, records)
    /\ records' = ArgumentAfter(passed, records)
    /\ last' = "normalizeData"
    /\ UNCHANGED <<items, orders, withItems, timeFrame, userId, renormalized,
                   series, features, trends, customers, users, grouped, recs,
                   passed, now>>

\* renormalized = DataPreprocessor.normalizeData(normalized)
Renormalize ==
    /\ last = "normalizeData"
    /\ renormalized' = normalizeDataCall(normalized).ret
    /\ normalized' = normalizeDataCall(normalized).arg
    /\ last' = "renormalize"
    /\ raised' = FALSE
    /\ UNCHANGED <<records, items, orders, withItems, timeFrame, userId, series,
                   features, trends, customers, users, grouped, recs, passed,
                   now>>

\* series = DataPreprocessor.createTimeSeries(records, 'date', 'quantity', frame)
CreateTimeSeries ==
    /\ \E frame \in TimeFrames :
          /\ timeFrame' = frame
          /\ series' = createTimeSeriesOf(passed, records, "quantity", frame)
    /\ records' = ArgumentAfter(passed, records)
    /\ last' = "createTimeSeries"
    /\ raised' = createTimeSeriesOf(passed, records, "quantity", timeFrame').threw
    /\ UNCHANGED <<items, orders, withItems, userId, normalized, renormalized,
                   features, trends, customers, users, grouped, recs, passed,
                   now>>

InitRecords == Blank

NextRecords == AddRecord \/ NormalizeData \/ Renormalize \/ CreateTimeSeries

SpecRecords == InitRecords /\ [][NextRecords]_vars

-----------------------------------------------------------------------------
(* Claims checked under SpecRecords *)

RECURSIVE SumCounts(_)
SumCounts(buckets) ==
    IF Len(buckets) = 0 THEN 0 ELSE Head(buckets).count + SumCounts(Tail(buckets))

\* the records whose raw time field is neither absent nor null
NonNullTimed == {i \in 1..Len(records) : records[i].date.t \notin {"undefined", "null"}}

\* C4: for a non-empty input, createTimeSeries returns buckets whose counts add
\* up to the number of input records with a non-null raw time field.
C4_CountsEveryTimedRecord ==
    (last = "createTimeSeries" /\ Len(records) > 0) =>
        /\ ~series.threw
        /\ SumCounts(series.buckets) = Cardinality(NonNullTimed)

\* the records that carry a proper calendar date, and the bucket key of each
ProperlyDated == {i \in 1..Len(records) : records[i].date.t = "datestr"}
KeyOfRecord(i) == TimeKey(NewDate(normalizeData(records)[i].date), timeFrame)
DayOfRecord(i) == records[i].date.v

\* C5: for every granularity, bucket order is chronological order: every
\* record of an earlier listed bucket is dated before every record of a later
\* listed bucket.
C5_BucketOrderIsChronological ==
    last = "createTimeSeries" =>
        \A j, k \in 1..Len(series.buckets) : \A a, b \in ProperlyDated :
            (j < k /\ KeyOfRecord(a) = series.buckets[j].date
                   /\ KeyOfRecord(b) = series.buckets[k].date)
                => DayOfRecord(a) < DayOfRecord(b)

NumberOrTimestamp(val) == val.t \in {"number", "NaN", "Infinity", "Date", "InvalidDate"}

\* C6: normalizing the output of normalizeData again leaves every number field
\* and every timestamp field of every record as it was.
C6_NormalizeIdempotent ==
    last = "renormalize" =>
        \A i \in 1..Len(normalized) : \A f \in DOMAIN normalized[i] :
            NumberOrTimestamp(normalized[i][f]) => renormalized[i][f] = normalized[i][f]

-----------------------------------------------------------------------------
(* Specification SpecFeatures: item and order records, the feature table     *)
(* built from them and the recommendations drawn from it                    *)

MaxItems == 3

OrderIds == {Text(1), Text(2)}
ProductIds == {Text(11), Text(12), Text(13)}
UserIds == {Text(21), Text(22)}

ItemRecords ==
    [order_id : OrderIds, item_id : ProductIds, quantity : {NumStr(2)},
     price : {NumStr(5)}, date : {DateStr(19732)}]

OrderRecords ==
    [order_id : OrderIds, user_id : UserIds, date : {DateStr(19732)}, amount : {NumStr(10)}]

AddItem ==
    /\ last = "none"
    /\ Len(items) < MaxItems
    /\ \E item \in ItemRecords : items' = Append(items, item)
    /\ UNCHANGED <<records, orders, withItems, timeFrame, userId, normalized,
                   renormalized, series, features, trends, customers, users,
                   grouped, recs, passed, now, raised, last>>

\* order_id is unique per order
AddOrder ==
    /\ last = "none"
    /\ \E order \in OrderRecords :
          /\ \A k \in 1..Len(orders) : orders[k].order_id # order.order_id
          /\ orders' = Append(orders, order)
    /\ UNCHANGED <<records, items, withItems, timeFrame, userId, normalized,
                   renormalized, series, features, trends, customers, users,
                   grouped, recs, passed, now, raised, last>>

\* features = DataPreprocessor.createProductFeatures(items, orders)
CreateProductFeatures ==
    /\ features' = createProductFeaturesOf(passed, items, orders)
    /\ items' = ArgumentAfter(passed, items)
    /\ orders' = normalizeDataCall(orders).arg
    /\ last' = "createProductFeatures"
    /\ raised' = FALSE
    /\ UNCHANGED <<records, withItems, timeFrame, userId, normalized,
                   renormalized, series, trends, customers, users, grouped, recs,
                   passed, now>>

\* recs = TrendAnalyzer.generateRecommendations(features, orders, uid)
GenerateRecommendations ==
    /\ \E uid \in {Undefined, Text(21)} : \E embedded \in BOOLEAN :
          /\ userId' = uid
          /\ withItems' = embedded
          /\ recs' = generateRecommendationsOf(passed, features,
                                               RecentOrders(orders, items, embedded), uid)
    /\ last' = "generateRecommendations"
    /\ raised' = FALSE
    /\ UNCHANGED <<records, items, orders, timeFrame, normalized, renormalized,
                   series, features, trends, customers, users, grouped, passed,
                   now>>

InitFeatures == Blank

\* the caller builds the feature table once and then asks for recommendations
NextFeatures ==
    \/ AddItem
    \/ AddOrder
    \/ last = "none" /\ CreateProductFeatures
    \/ last = "createProductFeatures" /\ GenerateRecommendations

SpecFeatures == InitFeatures /\ [][NextFeatures]_vars

-----------------------------------------------------------------------------
(* Claims checked under SpecFeatures *)

\* the products with an item record in the order with this id
ProductsOfOrder(oid) == {items[i].item_id : i \in {j \in 1..Len(items) : items[j].order_id = oid}}
OrdersOfItems == {items[i].order_id : i \in 1..Len(items)}
ProductsOfItems == {items[i].item_id : i \in 1..Len(items)}

\* the orders that hold both products
SharedOrders(a, b) == {oid \in OrdersOfItems : a \in ProductsOfOrder(oid) /\ b \in ProductsOfOrder(oid)}

\* the other products that share at least one order with product a
CoPurchased(a) == {b \in ProductsOfItems : b # a /\ SharedOrders(a, b) # {}}

FeaturesBuilt == last \in {"createProductFeatures", "generateRecommendations"}

ListedIds(list) == {list[k].id : k \in 1..Len(list)}

\* C8: the ids in a product's common_purchases are exactly the other products
\* sharing an order with it, each listed once (for at most 5 of them); for one
\* order holding one record of A and one of B, A lists B with count 1 and B
\* lists A with count 1.
C8_CommonPurchasesAreCoPurchased ==
    FeaturesBuilt =>
        /\ ListedIds(features) = ProductsOfItems
        /\ \A k \in 1..Len(features) :
              Cardinality(CoPurchased(features[k].id)) <= TopCoPurchases =>
                /\ ListedIds(features[k].common_purchases) = CoPurchased(features[k].id)
                /\ Len(features[k].common_purchases) = Cardinality(CoPurchased(features[k].id))
        /\ (/\ Len(items) = 2
            /\ items[1].order_id = items[2].order_id
            /\ items[1].item_id # items[2].item_id) =>
                /\ Len(features) = 2
                /\ features[1].common_purchases = <<[id |-> items[2].item_id, count |-> 1]>>
                /\ features[2].common_purchases = <<[id |-> items[1].item_id, count |-> 1]>>

\* C8 witness: a feature table with a product that has co-purchases and one
\* that is alone in its orders
C8_Witness ==
    /\ FeaturesBuilt
    /\ \E k \in 1..Len(features) : Len(features[k].common_purchases) = 1
    /\ \E k \in 1..Len(features) : Len(features[k].common_purchases) = 0

\* C9: the count listed for B in A's common_purchases is the number of
\* distinct orders that hold both A and B.
C9_CountIsNumberOfSharedOrders ==
    FeaturesBuilt =>
        \A k \in 1..Len(features) : \A c \in 1..Len(features[k].common_purchases) :
            features[k].common_purchases[c].count =
                Cardinality(SharedOrders(features[k].id, features[k].common_purchases[c].id))

\* the orders of a customer and the products bought in them, by order_id
OrdersOfUser(uid) == {orders[k].order_id : k \in {j \in 1..Len(orders) : orders[j].user_id = uid}}
PurchasedBy(uid) == UNION {ProductsOfOrder(oid) : oid \in OrdersOfUser(uid)}

Personalized ==
    /\ last = "generateRecommendations"
    /\ Len(features) > 0
    /\ ~Falsy(userId)
    /\ OrdersOfUser(userId) # {}

\* C2: on the personalized path no recommendation is a product the customer
\* has purchased in one of their orders.
C2_NeverRecommendsPurchased ==
    Personalized => ListedIds(recs.list) \cap PurchasedBy(userId) = {}

\* C2 witness: a personalized, non-empty answer for a customer with purchases
C2_Witness ==
    /\ Personalized
    /\ PurchasedBy(userId) # {}
    /\ Len(recs.list) > 0

\* the products never bought by the customer that share an order with one they bought
Candidates(uid) ==
    {q \in ProductsOfItems \ PurchasedBy(uid) : \E prod \in PurchasedBy(uid) : SharedOrders(prod, q) # {}}

\* C3: with the flat records of the record source, the personalized answer
\* holds every product bought together with one of the customer's products
\* (and not bought by the customer), when there are fewer than 5 of them.
C3_RecommendsFromOrderHistory ==
    (Personalized /\ ~withItems /\ Cardinality(Candidates(userId)) < TopRecommendations) =>
        Candidates(userId) \subseteq ListedIds(recs.list)

-----------------------------------------------------------------------------
(* Specification SpecTrends: the item records of one product, appended in    *)
(* date order as its orders arrive (the records of one day in the order of  *)
(* their quantities), and the trend analysis over them                      *)

MaxTrendItems == 5

\* 2024-01-10, 2024-02-01, 2024-03-01, 2024-04-01
TrendDays == {19732, 19754, 19783, 19814}

TrendItemRecords ==
    [order_id : {Text(1)}, item_id : {Text(11)}, quantity : {NumStr(0), NumStr(2), NumStr(9)},
     price : {NumStr(5)}, date : {DateStr(d) : d \in TrendDays}]

AddTrendItem ==
    /\ last = "none"
    /\ Len(items) < MaxTrendItems
    /\ \E item \in TrendItemRecords :
          /\ Len(items) > 0 =>
                \/ items[Len(items)].date.v < item.date.v
                \/ /\ items[Len(items)].date.v = item.date.v
                   /\ items[Len(items)].quantity.v <= item.quantity.v
          /\ items' = Append(items, item)
    /\ UNCHANGED <<records, orders, withItems, timeFrame, userId, normalized,
                   renormalized, series, features, trends, customers, users,
                   grouped, recs, passed, now, raised, last>>

\* trends = TrendAnalyzer.analyzeProductTrends(items, orders)
AnalyzeProductTrends ==
    /\ trends' = analyzeProductTrendsOf(passed, items, orders)
    /\ items' = ArgumentAfter(passed, items)
    /\ orders' = normalizeDataCall(orders).arg
    /\ last' = "analyzeProductTrends"
    /\ raised' = FALSE
    /\ UNCHANGED <<records, withItems, timeFrame, userId, normalized,
                   renormalized, series, features, customers, users, grouped,
                   recs, passed, now>>

InitTrends ==
    /\ records = <<>> /\ items = <<>>
    /\ orders = <<[order_id |-> Text(1), user_id |-> Text(21),
                   date |-> DateStr(19732), amount |-> NumStr(10)]>>
    /\ withItems = FALSE /\ timeFrame = "day" /\ userId = Undefined
    /\ normalized = <<>> /\ renormalized = <<>> /\ series = NoSeries
    /\ features = <<>> /\ trends = NoTrends /\ customers = NoCustomers
    /\ users = <<>> /\ grouped = <<>>
    /\ passed = "array" /\ now = Today /\ raised = FALSE
    /\ recs = NoRecs /\ last = "none"

NextTrends == AddTrendItem \/ (last = "none" /\ AnalyzeProductTrends)

SpecTrends == InitTrends /\ [][NextTrends]_vars

-----------------------------------------------------------------------------
(* Claims checked under SpecTrends *)

\* C1: no product id is both in growingProducts and in decliningProducts of
\* one analyzeProductTrends result.
C1_GrowingAndDecliningDisjoint ==
    last = "analyzeProductTrends" =>
        ListedIds(trends.growingProducts) \cap ListedIds(trends.decliningProducts) = {}

\* C1 witness: an analysis that lists a growing product
C1_Witness ==
    /\ last = "analyzeProductTrends"
    /\ Len(trends.growingProducts) > 0

-----------------------------------------------------------------------------
(* Specification SpecCustomers: the orders of three customers over two       *)
(* months and the customer analysis over them                               *)

MaxOrders == 4

CustomerIds == {Text(21), Text(22), Text(23)}

\* 2024-01-10, 2024-02-01
CustomerDays == {19732, 19754}

\* the next order of the record source: order ids are given out in sequence
AddCustomerOrder ==
    /\ last = "none"
    /\ Len(orders) < MaxOrders
    /\ \E uid \in CustomerIds : \E d \in CustomerDays :
          orders' = Append(orders, [order_id |-> Text(Len(orders) + 1), user_id |-> uid,
                                    date |-> DateStr(d), amount |-> NumStr(10)])
    /\ UNCHANGED <<records, items, withItems, timeFrame, userId, normalized,
                   renormalized, series, features, trends, customers, users,
                   grouped, recs, passed, now, raised, last>>

\* customers = TrendAnalyzer.analyzeCustomerPatterns(orders, users)
AnalyzeCustomerPatterns ==
    /\ customers' = analyzeCustomerPatternsOf(passed, orders, users, now)
    /\ orders' = ArgumentAfter(passed, orders)
    /\ users' = normalizeDataCall(users).arg
    /\ last' = "analyzeCustomerPatterns"
    /\ raised' = FALSE
    /\ UNCHANGED <<records, items, withItems, timeFrame, userId, normalized,
                   renormalized, series, features, trends, grouped, recs, passed,
                   now>>

UserRecord(uid) == [user_id |-> uid, name |-> Text(31), created_at |-> DateStr(19732)]

InitCustomers ==
    /\ records = <<>> /\ items = <<>> /\ orders = <<>>
    /\ withItems = FALSE /\ timeFrame = "day" /\ userId = Undefined
    /\ normalized = <<>> /\ renormalized = <<>> /\ series = NoSeries
    /\ features = <<>> /\ trends = NoTrends /\ customers = NoCustomers
    /\ users = <<UserRecord(Text(21))>> /\ grouped = <<>>
    /\ passed = "array" /\ now = Today /\ raised = FALSE
    /\ recs = NoRecs /\ last = "none"

NextCustomers == AddCustomerOrder \/ (last = "none" /\ AnalyzeCustomerPatterns)

SpecCustomers == InitCustomers /\ [][NextCustomers]_vars

-----------------------------------------------------------------------------
(* Claims checked under SpecCustomers *)

\* rate (in hundredths) is quotient * 100 rounded to two decimals, for the
\* quotient part / whole
RoundedPercentage(rate, part, whole) ==
    /\ rate.k = "finite" /\ rate.d = 100
    /\ 2 * AbsInt(rate.n * whole - part * 100 * 100) <= whole

\* C10: in every cohort of customerRetention, newCustomers >= 1,
\* 0 <= repeatCustomers <= newCustomers, retentionRate is
\* repeatCustomers / newCustomers * 100 rounded to 2 decimals, and it lies
\* between 0 and 100.
C10_RetentionRateIsRoundedPercentage ==
    last = "analyzeCustomerPatterns" =>
        \A k \in 1..Len(customers.customerRetention) :
            /\ customers.customerRetention[k].newCustomers >= 1
            /\ customers.customerRetention[k].repeatCustomers >= 0
            /\ customers.customerRetention[k].repeatCustomers
                   <= customers.customerRetention[k].newCustomers
            /\ RoundedPercentage(customers.customerRetention[k].retentionRate,
                                 customers.customerRetention[k].repeatCustomers,
                                 customers.customerRetention[k].newCustomers)
            /\ customers.customerRetention[k].retentionRate.n >= 0
            /\ customers.customerRetention[k].retentionRate.n <= 100 * 100

\* C10 witness: a cohort of three customers one of whom came back (33.33)
C10_Witness ==
    /\ last = "analyzeCustomerPatterns"
    /\ \E k \in 1..Len(customers.customerRetention) :
          /\ customers.customerRetention[k].newCustomers = 3
          /\ customers.customerRetention[k].repeatCustomers = 1
          /\ customers.customerRetention[k].retentionRate = Ratio(3333, 100)

-----------------------------------------------------------------------------
(* Specification SpecFrame: the seven entry points called in any order, any  *)
(* number of times, on collections that the caller keeps                    *)

FrameRecords ==
    [item_id : {Text(1)}, date : {DateStr(19732), EmptyStr}, quantity : {NumStr(2), EmptyStr}]

FrameItem(pid) ==
    [order_id |-> Text(1), item_id |-> pid, quantity |-> NumStr(2),
     price |-> NumStr(5), date |-> DateStr(19732)]

FrameOrder ==
    [order_id |-> Text(1), user_id |-> Text(21), date |-> DateStr(19732),
     amount |-> NumStr(10)]

\* grouped = DataPreprocessor.groupDataBy(records, 'item_id')
GroupDataBy ==
    /\ grouped' = groupDataByOf(passed, records, "item_id")
    /\ last' = "groupDataBy"
    /\ raised' = FALSE
    /\ UNCHANGED <<records, items, orders, withItems, timeFrame, userId,
                   normalized, renormalized, series, features, trends, customers,
                   users, recs, passed, now>>

InitFrame ==
    /\ records \in {<<r>> : r \in FrameRecords}
    /\ items = <<FrameItem(Text(11)), FrameItem(Text(12))>>
    /\ orders = <<FrameOrder>>
    /\ users = <<UserRecord(Text(21))>>
    /\ withItems = FALSE /\ timeFrame = "day" /\ userId = Undefined
    /\ normalized = <<>> /\ renormalized = <<>> /\ series = NoSeries
    /\ features = <<>> /\ trends = NoTrends /\ customers = NoCustomers
    /\ passed = "array" /\ now = Today /\ raised = FALSE
    /\ grouped = <<>> /\ recs = NoRecs /\ last = "none"

NextFrame ==
    \/ NormalizeData
    \/ GroupDataBy
    \/ CreateTimeSeries
    \/ CreateProductFeatures
    \/ AnalyzeProductTrends
    \/ AnalyzeCustomerPatterns
    \/ GenerateRecommendations

SpecFrame == InitFrame /\ [][NextFrame]_vars

-----------------------------------------------------------------------------
(* Claims checked under SpecFrame *)

\* what a call leaves in the collections it was given
ArgumentsKept ==
    /\ records' = records
    /\ items' = items
    /\ orders' = orders
    /\ users' = users
    /\ last' = "generateRecommendations" => features' = features

\* C7: no call of an entry point changes a collection passed to it: the raw
\* records, items, orders and users keep their records, order and field
\* values, and so does the feature table given to generateRecommendations.
C7_ArgumentsNeverModified == [][ArgumentsKept]_vars

\* C7 witness: all seven entry points have returned a result drawn from raw
\* records whose fields normalizeData converts
C7_Witness ==
    /\ records[1].quantity = NumStr(2) /\ normalized # <<>>
    /\ normalized[1].quantity = Num(2)
    /\ grouped # <<>>
    /\ series.buckets # <<>>
    /\ features # <<>> /\ items[1].quantity = NumStr(2)
    /\ trends.error = "none"
    /\ customers.error = "none" /\ orders[1].date = DateStr(19732)
    /\ recs.error = "none" /\ recs.list # <<>>

-----------------------------------------------------------------------------
(* Specification SpecInputs: one call of an entry point on collections that  *)
(* are empty, small, or not arrays at all (generateRecommendations may       *)
(* follow createProductFeatures)                                            *)

InputRecords == {<<>>} \cup {<<r>> : r \in FrameRecords}

InputItems == {<<>>, <<FrameItem(Text(11))>>, <<FrameItem(Text(11)), FrameItem(Text(12))>>}

InputOrders == {<<>>, <<FrameOrder>>}

InitInputs ==
    /\ records \in InputRecords
    /\ items \in InputItems
    /\ orders \in InputOrders
    /\ users = <<UserRecord(Text(21))>>
    /\ passed \in {"array"} \cup NonArrays
    /\ withItems = FALSE /\ timeFrame = "day" /\ userId = Undefined
    /\ normalized = <<>> /\ renormalized = <<>> /\ series = NoSeries
    /\ features = <<>> /\ trends = NoTrends /\ customers = NoCustomers
    /\ now = Today /\ raised = FALSE
    /\ grouped = <<>> /\ recs = NoRecs /\ last = "none"

NextInputs ==
    \/ last = "none" /\ NormalizeData
    \/ last = "none" /\ GroupDataBy
    \/ last = "none" /\ CreateTimeSeries
    \/ last = "none" /\ CreateProductFeatures
    \/ last = "none" /\ AnalyzeProductTrends
    \/ last = "none" /\ AnalyzeCustomerPatterns
    \/ last \in {"none", "createProductFeatures"} /\ GenerateRecommendations

SpecInputs == InitInputs /\ [][NextInputs]_vars

-----------------------------------------------------------------------------
(* Claims checked under SpecInputs *)

NoTrendLists ==
    /\ trends.topProducts = <<>> /\ trends.growingProducts = <<>>
    /\ trends.decliningProducts = <<>> /\ trends.priceTrends = <<>>

NoCustomerLists ==
    /\ customers.topCustomers = <<>> /\ customers.customerRetention = <<>>
    /\ customers.purchaseFrequency = <<>>

\* C11: on an empty collection an analysis entry point returns, without
\* raising, a result with an error marker and no analysis list:
\* analyzeProductTrends when items or orders is empty, analyzeCustomerPatterns
\* when orders is empty, generateRecommendations when the feature table is
\* empty or absent.
C11_EmptyInputGivesErrorMarker ==
    /\ (last = "analyzeProductTrends" /\ passed = "array"
            /\ (items = <<>> \/ orders = <<>>)) =>
          (~raised /\ trends.error \notin {"none", "not called"} /\ NoTrendLists)
    /\ (last = "analyzeCustomerPatterns" /\ passed = "array" /\ orders = <<>>) =>
          (~raised /\ customers.error \notin {"none", "not called"} /\ NoCustomerLists)
    /\ (last = "generateRecommendations"
            /\ (features = <<>> \/ passed \in {"undefined", "null"})) =>
          (~raised /\ recs.error \notin {"none", "not called"} /\ recs.list = <<>>)

\* C11 witness: analyzeProductTrends has answered for items without any order
C11_Witness ==
    /\ last = "analyzeProductTrends" /\ passed = "array"
    /\ items # <<>> /\ orders = <<>>
    /\ trends.error = "Insufficient data for analysis"

-----------------------------------------------------------------------------
(* Further claims checked under SpecTrends *)

\* the item records of a product and the calendar months they fall in
RecordsOfProduct(pid) == {i \in 1..Len(items) : items[i].item_id = pid}
MonthsOfProduct(pid) == {MonthStart(items[i].date.v) : i \in RecordsOfProduct(pid)}

\* the product has too few records or too few months to be analysed
Undersized(pid) ==
    \/ Cardinality(RecordsOfProduct(pid)) < MinDataPoints
    \/ Cardinality(MonthsOfProduct(pid)) < MinMonths

\* C12: when the collections are not empty but every product is undersized,
\* the result of analyzeProductTrends carries an error marker.
C12_UndersizedGivesErrorMarker ==
    (/\ last = "analyzeProductTrends"
     /\ items # <<>> /\ orders # <<>>
     /\ \A pid \in ProductsOfItems : Undersized(pid)) =>
        trends.error # "none"

-----------------------------------------------------------------------------
(* Further claims checked under SpecInputs *)

\* C13: analyzeProductTrends and analyzeCustomerPatterns given a value that
\* is no array (a non-array object, a number, null) end in an exception
\* raised to the caller and never return the insufficient-data result.
C13_NonIterableInputRaises ==
    /\ (last = "analyzeProductTrends" /\ passed \in {"null", "number", "object"}) =>
          (raised /\ trends.error # "Insufficient data for analysis")
    /\ (last = "analyzeCustomerPatterns" /\ passed \in {"null", "number", "object"}) =>
          (raised /\ customers.error # "Insufficient order data for analysis")

-----------------------------------------------------------------------------
(* Specification SpecElements: normalizeData on arrays whose elements are    *)
(* records, null or a number, and on values that are no arrays              *)

MaxElements == 2

Elements == FrameRecords \cup {Null, Num(5)}

AddElement ==
    /\ last = "none"
    /\ Len(records) < MaxElements
    /\ \E e \in Elements : records' = Append(records, e)
    /\ UNCHANGED <<items, orders, withItems, timeFrame, userId, normalized,
                   renormalized, series, features, trends, customers, users,
                   grouped, recs, passed, now, raised, last>>

InitElements ==
    /\ records = <<>> /\ items = <<>> /\ orders = <<>> /\ users = <<>>
    /\ passed \in {"array"} \cup NonArrays
    /\ withItems = FALSE /\ timeFrame = "day" /\ userId = Undefined
    /\ normalized = <<>> /\ renormalized = <<>> /\ series = NoSeries
    /\ features = <<>> /\ trends = NoTrends /\ customers = NoCustomers
    /\ now = Today /\ raised = FALSE
    /\ grouped = <<>> /\ recs = NoRecs /\ last = "none"

NextElements == AddElement \/ (last = "none" /\ NormalizeData)

SpecElements == InitElements /\ [][NextElements]_vars

-----------------------------------------------------------------------------
(* Claims checked under SpecElements *)

\* the value passed is empty or no proper sequence of records
NotProperRecords ==
    \/ passed # "array"
    \/ records = <<>>
    \/ \E i \in 1..Len(records) : ~IsRecord(records[i])

\* C14: normalizeData returns the empty sequence and does not raise whenever
\* its input is null, undefined, no array, an empty array, or an array with
\* an element that is not a record.
C14_NormalizeFailsSoftly ==
    (last = "normalizeData" /\ NotProperRecords) => (~raised /\ normalized = <<>>)

-----------------------------------------------------------------------------
(* Specification SpecPopular: the item records of up to six products (each   *)
(* new record is of a product seen before or of the next new one), the       *)
(* feature table built from them and the recommendations for a customer     *)
(* without orders                                                           *)

MaxPopularItems == 7

PopularProducts == 6

\* the number of distinct products among the item records
ProductCount == Cardinality({items[i].item_id : i \in 1..Len(items)})

AddPopularItem ==
    /\ last = "none"
    /\ Len(items) < MaxPopularItems
    /\ \E n \in 1..Min2(ProductCount + 1, PopularProducts) :
          items' = Append(items, FrameItem(Text(10 + n)))
    /\ UNCHANGED <<records, orders, withItems, timeFrame, userId, normalized,
                   renormalized, series, features, trends, customers, users,
                   grouped, recs, passed, now, raised, last>>

InitPopular ==
    /\ records = <<>> /\ items = <<>>
    /\ orders = <<[order_id |-> Text(1), user_id |-> Text(22),
                   date |-> DateStr(19732), amount |-> NumStr(10)]>>
    /\ users = <<>>
    /\ withItems = FALSE /\ timeFrame = "day" /\ userId = Undefined
    /\ normalized = <<>> /\ renormalized = <<>> /\ series = NoSeries
    /\ features = <<>> /\ trends = NoTrends /\ customers = NoCustomers
    /\ passed = "array" /\ now = Today /\ raised = FALSE
    /\ grouped = <<>> /\ recs = NoRecs /\ last = "none"

NextPopular ==
    \/ AddPopularItem
    \/ last = "none" /\ CreateProductFeatures
    \/ last = "createProductFeatures" /\ GenerateRecommendations

SpecPopular == InitPopular /\ [][NextPopular]_vars

-----------------------------------------------------------------------------
(* Claims checked under SpecPopular *)

\* the call was made without a userId, or for a customer without any order
PopularityAsked ==
    /\ last = "generateRecommendations"
    /\ Falsy(userId) \/ OrdersOfUser(userId) = {}

\* the number of item records of a product
PurchaseCount(pid) == Cardinality(RecordsOfProduct(pid))

\* C15: without a userId, or for a userId without orders, the answer is the
\* popularity result: min(5, number of products) distinct products, by
\* descending purchase_count, none left out that was bought more often than
\* one returned, each with reason 'Popular product' and its purchase_count
\* as score.
C15_FallsBackToPopular ==
    (PopularityAsked /\ Len(features) > 0) =>
        /\ Len(recs.list) = Min2(TopRecommendations, Cardinality(ProductsOfItems))
        /\ Cardinality(ListedIds(recs.list)) = Len(recs.list)
        /\ ListedIds(recs.list) \subseteq ProductsOfItems
        /\ \A k \in 1..Len(recs.list) :
              /\ recs.list[k].reason = "Popular product"
              /\ recs.list[k].score = PurchaseCount(recs.list[k].id)
        /\ \A j, k \in 1..Len(recs.list) :
              j < k => recs.list[j].score >= recs.list[k].score
        /\ \A pid \in ListedIds(recs.list) :
              \A other \in ProductsOfItems \ ListedIds(recs.list) :
                  PurchaseCount(pid) >= PurchaseCount(other)

\* C15 witness: six products, the customer asked about has no order, and the
\* five returned start with a product bought twice
C15_Witness ==
    /\ PopularityAsked /\ userId = Text(21)
    /\ Len(features) = PopularProducts
    /\ Len(recs.list) = TopRecommendations
    /\ recs.list[1].score = 2
    /\ features[1].purchase_count = 1

-----------------------------------------------------------------------------
(* Specification SpecClock: the four analysis entry points called any        *)
(* number of times, in any order, on collections that stay as they are,      *)
(* while the days pass (the feature table is built before it is used, as    *)
(* getUserRecommendations does)                                              *)

MaxTicks == 2

ClockItems ==
    {<<FrameItem(Text(11))>>, <<FrameItem(Text(11)), FrameItem(Text(12))>>}

ClockOrders ==
    {<<FrameOrder>>,
     <<FrameOrder, [order_id |-> Text(2), user_id |-> Text(22),
                    date |-> DateStr(19754), amount |-> NumStr(10)]>>}

\* midnight passes between two calls
Tick ==
    /\ now < Today + MaxTicks
    /\ now' = now + 1
    /\ UNCHANGED <<records, items, orders, withItems, timeFrame, userId, normalized,
                   renormalized, series, features, trends, customers, users,
                   grouped, recs, passed, raised, last>>

InitClock ==
    /\ records = <<>>
    /\ items \in ClockItems
    /\ orders \in ClockOrders
    /\ users = <<UserRecord(Text(21))>>
    /\ withItems = FALSE /\ timeFrame = "day" /\ userId = Undefined
    /\ normalized = <<>> /\ renormalized = <<>> /\ series = NoSeries
    /\ features = <<>> /\ trends = NoTrends /\ customers = NoCustomers
    /\ passed = "array" /\ now = Today /\ raised = FALSE
    /\ grouped = <<>> /\ recs = NoRecs /\ last = "none"

NextClock ==
    \/ Tick
    \/ CreateProductFeatures
    \/ AnalyzeProductTrends
    \/ AnalyzeCustomerPatterns
    \/ features # <<>> /\ GenerateRecommendations

SpecClock == InitClock /\ [][NextClock]_vars

-----------------------------------------------------------------------------
(* Claims checked under SpecClock *)

\* a step that is a repeated call of an entry point, with arguments equal to
\* those of its previous call, leaves the result of that entry point as it was
RepeatedCallsAgree ==
    /\ (last' = "analyzeProductTrends" /\ trends.error # "not called"
            /\ items' = items /\ orders' = orders) => trends' = trends
    /\ (last' = "analyzeCustomerPatterns" /\ customers.error # "not called"
            /\ orders' = orders /\ users' = users) => customers' = customers
    /\ (last' = "createProductFeatures" /\ features # <<>>
            /\ items' = items /\ orders' = orders) => features' = features
    /\ (last' = "generateRecommendations" /\ recs.error # "not called"
            /\ features' = features /\ orders' = orders /\ items' = items
            /\ userId' = userId /\ withItems' = withItems) => recs' = recs

\* C16: every analysis entry point is pure with respect to its inputs: two
\* calls with equal arguments return equal results, whatever other analysis
\* calls ran in between and whenever they are made.
C16_EqualArgumentsEqualResults == [][RepeatedCallsAgree]_vars

-----------------------------------------------------------------------------
(* Specification SpecMonthly: one product sold once a month, the month's     *)
(* quantity taken from the series 10, 12, 14, 18, 22, 30, from the same     *)
(* series backwards, or 11, and the trend analysis over these records       *)

MaxMonths == 6

MonthlyProduct == Text(11)

ExampleSums == <<10, 12, 14, 18, 22, 30>>

\* the quantities that month k may have
MonthlyQuantities(k) ==
    IF k <= Len(ExampleSums)
    THEN {ExampleSums[k], ExampleSums[Len(ExampleSums) + 1 - k], 11}
    ELSE {ExampleSums[1], ExampleSums[Len(ExampleSums)], 11}

\* the 10th of January 2024 and every 30th day after it: one day in each of
\* the months that follow
MonthlyDay(k) == 19732 + 30 * (k - 1)

AddMonthlyItem ==
    /\ last = "none"
    /\ Len(items) < MaxMonths
    /\ \E q \in MonthlyQuantities(Len(items) + 1) :
          items' = Append(items, [order_id |-> Text(1), item_id |-> MonthlyProduct,
                                  quantity |-> NumStr(q), price |-> NumStr(5),
                                  date |-> DateStr(MonthlyDay(Len(items) + 1))])
    /\ UNCHANGED <<records, orders, withItems, timeFrame, userId, normalized,
                   renormalized, series, features, trends, customers, users,
                   grouped, recs, passed, now, raised, last>>

NextMonthly == AddMonthlyItem \/ (last = "none" /\ AnalyzeProductTrends)

SpecMonthly == InitTrends /\ [][NextMonthly]_vars

-----------------------------------------------------------------------------
(* Claims checked under SpecMonthly *)

\* the monthly quantity sums of the product, read off its records (one a month)
MonthlySums == [k \in 1..Len(items) |-> items[k].quantity.v]

\* n * sum(x * y) - sum(x) * sum(y) over x = 0..n-1: it has the sign of the
\* least-squares slope
SlopeSign ==
    Len(items) * SumOf([k \in 1..Len(items) |-> (k - 1) * MonthlySums[k]] \o <<>>)
        - SumOf([k \in 1..Len(items) |-> k - 1] \o <<>>) * SumOf(MonthlySums \o <<>>)

\* (last / first - 1) * 100 compared with the percentage c
GrowthAbove(c) ==
    (MonthlySums[Len(items)] - MonthlySums[1]) * 100 > c * MonthlySums[1]

GrowthBelow(c) ==
    (MonthlySums[Len(items)] - MonthlySums[1]) * 100 < c * MonthlySums[1]

\* rate is (last / first - 1) * 100 to two decimals
IsGrowthRate(rate) ==
    /\ rate.k = "finite" /\ rate.d = 100
    /\ 2 * AbsInt(rate.n * MonthlySums[1]
                    - (MonthlySums[Len(items)] - MonthlySums[1]) * 100 * 100)
          <= MonthlySums[1]

-----------------------------------------------------------------------------
(* Specification SpecPrices: the item records of one product, each sold in   *)
(* the month of the record before it or in the month after, at the low      *)
(* quantity and price or at the high ones, and the trend analysis over them *)

MaxPricedItems == 5

\* quantity and price of a sale
Sales == {<<2, 5>>, <<9, 9>>}

\* the month (counted from January 2024) of the latest record
LatestMonth == IF Len(items) = 0 THEN 1 ELSE (items[Len(items)].date.v - 19732) \div 30 + 1

AddPricedItem ==
    /\ last = "none"
    /\ Len(items) < MaxPricedItems
    /\ \E sale \in Sales :
          \E month \in {LatestMonth} \cup (IF Len(items) = 0 THEN {} ELSE {LatestMonth + 1}) :
              items' = Append(items, [order_id |-> Text(1), item_id |-> MonthlyProduct,
                                      quantity |-> NumStr(sale[1]), price |-> NumStr(sale[2]),
                                      date |-> DateStr(MonthlyDay(month))])
    /\ UNCHANGED <<records, orders, withItems, timeFrame, userId, normalized,
                   renormalized, series, features, trends, customers, users,
                   grouped, recs, passed, now, raised, last>>

NextPrices == AddPricedItem \/ (last = "none" /\ AnalyzeProductTrends)

SpecPrices == InitTrends /\ [][NextPrices]_vars

-----------------------------------------------------------------------------
(* Claims checked under SpecPrices *)

\* C18: a product appears in growingProducts, decliningProducts or
\* priceTrends only if it has at least 5 item records and at least 3 monthly
\* buckets; a product below either minimum appears in none of the three.
C18_ListsHoldOnlyAnalysedProducts ==
    last = "analyzeProductTrends" =>
        \A pid \in ListedIds(trends.growingProducts)
                     \cup ListedIds(trends.decliningProducts)
                     \cup ListedIds(trends.priceTrends) : ~Undersized(pid)

\* C18 witness: a product with exactly 5 records in exactly 3 months is
\* listed as growing and with a price trend
C18_Witness ==
    /\ last = "analyzeProductTrends"
    /\ Cardinality(RecordsOfProduct(MonthlyProduct)) = MinDataPoints
    /\ Cardinality(MonthsOfProduct(MonthlyProduct)) = MinMonths
    /\ ListedIds(trends.growingProducts) = {MonthlyProduct}
    /\ ListedIds(trends.priceTrends) = {MonthlyProduct}

-----------------------------------------------------------------------------
(* Specification SpecRanking: products sold once a month for five months at  *)
(* a steady quantity and price that both change in the fifth month, and the *)
(* trend analysis over their records                                        *)

MaxRankedProducts == 6

\* first and last quantity, first and last price of a product: growth of
\* 350% or 100% or decline of 50% for the products with an odd number,
\* growth of 100% or decline of 77.78% or 50% for the others, with price
\* changes of 80%, 20%, -44.44% and -16.67%
Profiles(j) ==
    IF j % 2 = 1 THEN {<<2, 9, 5, 9>>, <<2, 4, 5, 6>>, <<4, 2, 6, 5>>}
    ELSE {<<2, 4, 5, 6>>, <<9, 2, 9, 5>>, <<4, 2, 6, 5>>}

\* the record of month k of product number j with the given profile
ProfileRecord(j, profile, k) ==
    [order_id |-> Text(1), item_id |-> Text(10 + j),
     quantity |-> NumStr(IF k < MinDataPoints THEN profile[1] ELSE profile[2]),
     price |-> NumStr(IF k < MinDataPoints THEN profile[3] ELSE profile[4]),
     date |-> DateStr(MonthlyDay(k))]

\* the five records of the next product
AddRankedProduct ==
    /\ last = "none"
    /\ Len(items) < MaxRankedProducts * MinDataPoints
    /\ \E profile \in Profiles(Len(items) \div MinDataPoints + 1) :
          items' = items \o [k \in 1..MinDataPoints |->
                                 ProfileRecord(Len(items) \div MinDataPoints + 1, profile, k)]
    /\ UNCHANGED <<records, orders, withItems, timeFrame, userId, normalized,
                   renormalized, series, features, trends, customers, users,
                   grouped, recs, passed, now, raised, last>>

NextRanking == AddRankedProduct \/ (last = "none" /\ AnalyzeProductTrends)

SpecRanking == InitTrends /\ [][NextRanking]_vars

-----------------------------------------------------------------------------
(* Claims checked under SpecRanking *)

\* the records of a product, in input order (one a month)
SalesOf(pid) == SelectSeq(items, LAMBDA item : item.item_id = pid)

FirstSale(pid) == SalesOf(pid)[1]
LastSale(pid) == SalesOf(pid)[Len(SalesOf(pid))]

\* n * sum(x * y) - sum(x) * sum(y) over the monthly quantities of a product
SlopeSignOf(pid) ==
    Len(SalesOf(pid))
        * SumOf([k \in 1..Len(SalesOf(pid)) |-> (k - 1) * SalesOf(pid)[k].quantity.v] \o <<>>)
      - SumOf([k \in 1..Len(SalesOf(pid)) |-> k - 1] \o <<>>)
        * SumOf([k \in 1..Len(SalesOf(pid)) |-> SalesOf(pid)[k].quantity.v] \o <<>>)

\* 100 * (last - first) against c * first, for the field of the product's
\* first and last month
ChangeAbove(pid, field, c) ==
    (LastSale(pid)[field].v - FirstSale(pid)[field].v) * 100 > c * FirstSale(pid)[field].v

ChangeBelow(pid, field, c) ==
    (LastSale(pid)[field].v - FirstSale(pid)[field].v) * 100 < c * FirstSale(pid)[field].v

\* the percentage change of the field as the result reports it
ReportedChange(pid, field) ==
    ToFixed2(PercentChange(LastSale(pid)[field].v, 1, FirstSale(pid)[field].v, 1))

GrowingQualified ==
    {pid \in ProductsOfItems : SlopeSignOf(pid) > 0 /\ ChangeAbove(pid, "quantity", 10)}

DecliningQualified ==
    {pid \in ProductsOfItems : SlopeSignOf(pid) < 0 /\ ChangeBelow(pid, "quantity", -10)}

PriceQualified ==
    {pid \in ProductsOfItems :
        ChangeAbove(pid, "price", 5) \/ ChangeBelow(pid, "price", -5)}

\* list holds min(5, k) distinct products of the k qualifying ones
HoldsTopOf(list, qualified) ==
    /\ Len(list) = Min2(TopTrends, Cardinality(qualified))
    /\ ListedIds(list) \subseteq qualified
    /\ Cardinality(ListedIds(list)) = Len(list)

\* C19: growingProducts is sorted by descending growth rate and holds the
\* min(5, k) qualifying products with the highest rates, decliningProducts
\* is sorted by ascending growth rate and holds the min(5, k) most negative
\* ones, priceTrends is sorted by descending absolute percentage change and
\* holds at most 5 entries; no qualifying product left out of a list ranks
\* strictly ahead of one that is in it.
C19_ListsAreRankedAndCut ==
    last = "analyzeProductTrends" =>
        /\ HoldsTopOf(trends.growingProducts, GrowingQualified)
        /\ \A k \in 1..Len(trends.growingProducts) :
              /\ trends.growingProducts[k].growthRate
                    = ReportedChange(trends.growingProducts[k].id, "quantity")
              /\ \A j \in 1..(k - 1) :
                    ~RatioLess(trends.growingProducts[j].growthRate,
                               trends.growingProducts[k].growthRate)
              /\ \A pid \in GrowingQualified \ ListedIds(trends.growingProducts) :
                    ~RatioLess(trends.growingProducts[k].growthRate,
                               ReportedChange(pid, "quantity"))
        /\ HoldsTopOf(trends.decliningProducts, DecliningQualified)
        /\ \A k \in 1..Len(trends.decliningProducts) :
              /\ trends.decliningProducts[k].growthRate
                    = ReportedChange(trends.decliningProducts[k].id, "quantity")
              /\ \A j \in 1..(k - 1) :
                    ~RatioLess(trends.decliningProducts[k].growthRate,
                               trends.decliningProducts[j].growthRate)
              /\ \A pid \in DecliningQualified \ ListedIds(trends.decliningProducts) :
                    ~RatioLess(ReportedChange(pid, "quantity"),
                               trends.decliningProducts[k].growthRate)
        /\ HoldsTopOf(trends.priceTrends, PriceQualified)
        /\ \A k \in 1..Len(trends.priceTrends) :
              /\ trends.priceTrends[k].priceChangePercent
                    = ReportedChange(trends.priceTrends[k].id, "price")
              /\ \A j \in 1..(k - 1) :
                    ~RatioLess(AbsRatio(trends.priceTrends[j].priceChangePercent),
                               AbsRatio(trends.priceTrends[k].priceChangePercent))
              /\ \A pid \in PriceQualified \ ListedIds(trends.priceTrends) :
                    ~RatioLess(AbsRatio(trends.priceTrends[k].priceChangePercent),
                               AbsRatio(ReportedChange(pid, "price")))

\* C19 witness: six growing products, the first two at 350.00 and 100.00:
\* the five listed start with 350.00 and end with 100.00, one product at
\* 100.00 is left out, and the price trends are cut to five as well
C19_Witness ==
    /\ last = "analyzeProductTrends"
    /\ Cardinality(GrowingQualified) = MaxRankedProducts
    /\ Len(trends.growingProducts) = TopTrends
    /\ ReportedChange(Text(12), "quantity") = Ratio(10000, 100)
    /\ ReportedChange(Text(13), "quantity") = Ratio(35000, 100)
    /\ trends.growingProducts[2].id = Text(13)
    /\ trends.growingProducts[TopTrends].growthRate = Ratio(10000, 100)
    /\ Len(trends.priceTrends) = TopTrends

-----------------------------------------------------------------------------
(* Specification SpecTop: a product sold for five months, its sales growing  *)
(* to a total of 17, then products sold only once, 2 or 20 at a time, and   *)
(* the trend analysis over all of them                                      *)

MaxSingleSales == 10

SingleQuantities == {2, 20}

\* the one record of the next product
AddSingleSale ==
    /\ last = "none"
    /\ Len(items) < MinDataPoints + MaxSingleSales
    /\ \E q \in SingleQuantities :
          items' = Append(items, [order_id |-> Text(1),
                                  item_id |-> Text(10 + Len(items) - MinDataPoints + 2),
                                  quantity |-> NumStr(q), price |-> NumStr(5),
                                  date |-> DateStr(MonthlyDay(1))])
    /\ UNCHANGED <<records, orders, withItems, timeFrame, userId, normalized,
                   renormalized, series, features, trends, customers, users,
                   grouped, recs, passed, now, raised, last>>

InitTop ==
    /\ records = <<>>
    /\ items = [k \in 1..MinDataPoints |-> ProfileRecord(1, <<2, 9, 5, 9>>, k)]
    /\ orders = <<FrameOrder>>
    /\ users = <<>>
    /\ withItems = FALSE /\ timeFrame = "day" /\ userId = Undefined
    /\ normalized = <<>> /\ renormalized = <<>> /\ series = NoSeries
    /\ features = <<>> /\ trends = NoTrends /\ customers = NoCustomers
    /\ passed = "array" /\ now = Today /\ raised = FALSE
    /\ grouped = <<>> /\ recs = NoRecs /\ last = "none"

NextTop == AddSingleSale \/ (last = "none" /\ AnalyzeProductTrends)

SpecTop == InitTop /\ [][NextTop]_vars

-----------------------------------------------------------------------------
(* Claims checked under SpecTop *)

\* the quantities of the records of a product, added up
TotalQuantityOf(pid) ==
    SumOf([k \in 1..Len(SalesOf(pid)) |-> SalesOf(pid)[k].quantity.v] \o <<>>)

\* C20: topProducts holds the min(10, number of products) products with the
\* largest total quantity, in descending order of total quantity, whatever
\* their trend classification: a product with fewer than 5 records or 3
\* months is included whenever its total quantity ranks in the top 10.
C20_TopProductsByTotalQuantity ==
    last = "analyzeProductTrends" =>
        /\ Len(trends.topProducts) = Min2(TopProducts, Cardinality(ProductsOfItems))
        /\ ListedIds(trends.topProducts) \subseteq ProductsOfItems
        /\ Cardinality(ListedIds(trends.topProducts)) = Len(trends.topProducts)
        /\ \A k \in 1..Len(trends.topProducts) :
              /\ trends.topProducts[k].totalQuantity
                    = TotalQuantityOf(trends.topProducts[k].id)
              /\ \A j \in 1..(k - 1) :
                    trends.topProducts[j].totalQuantity >= trends.topProducts[k].totalQuantity
              /\ \A pid \in ProductsOfItems \ ListedIds(trends.topProducts) :
                    trends.topProducts[k].totalQuantity >= TotalQuantityOf(pid)

\* C20 witness: eleven products; the ten listed were each sold once, 20 at a
\* time, and the product left out is the growing one with a total of 17
C20_Witness ==
    /\ last = "analyzeProductTrends"
    /\ Cardinality(ProductsOfItems) = TopProducts + 1
    /\ Len(trends.topProducts) = TopProducts
    /\ \A k \in 1..Len(trends.topProducts) :
          /\ Undersized(trends.topProducts[k].id)
          /\ trends.topProducts[k].totalQuantity = 20
    /\ ListedIds(trends.growingProducts) = {Text(11)}
    /\ TotalQuantityOf(Text(11)) = 17

-----------------------------------------------------------------------------
(* Specification SpecPersonal: customer 21 bought products 11 and 12 in      *)
(* order 3; customer 22 bought them too, 11 in order 1 and 12 in order 2,   *)
(* each time with some of the products 13 to 18; the feature table and the  *)
(* recommendations for customer 21                                          *)

MaxPersonalItems == 12

\* order, product and quantity of the records customer 22 may add, in the
\* order in which they are added
PersonalSales ==
    <<<<1, 11, 2>>, <<1, 13, 2>>, <<1, 14, 2>>, <<1, 15, 2>>,
      <<2, 12, 2>>, <<2, 15, 2>>, <<2, 15, 3>>, <<2, 16, 2>>, <<2, 17, 2>>, <<2, 18, 2>>>>

PersonalRecord(sale) ==
    [order_id |-> Text(sale[1]), item_id |-> Text(sale[2]), quantity |-> NumStr(sale[3]),
     price |-> NumStr(5), date |-> DateStr(19732)]

\* the place in PersonalSales of the latest record added
LatestSale ==
    IF \E i \in 1..Len(PersonalSales) : PersonalRecord(PersonalSales[i]) = items[Len(items)]
    THEN CHOOSE i \in 1..Len(PersonalSales) :
             PersonalRecord(PersonalSales[i]) = items[Len(items)]
    ELSE 0

AddPersonalItem ==
    /\ last = "none"
    /\ Len(items) < MaxPersonalItems
    /\ \E i \in (LatestSale + 1)..Len(PersonalSales) :
          items' = Append(items, PersonalRecord(PersonalSales[i]))
    /\ UNCHANGED <<records, orders, withItems, timeFrame, userId, normalized,
                   renormalized, series, features, trends, customers, users,
                   grouped, recs, passed, now, raised, last>>

InitPersonal ==
    /\ records = <<>>
    /\ items = <<PersonalRecord(<<3, 11, 2>>), PersonalRecord(<<3, 12, 2>>)>>
    /\ orders = [k \in 1..3 |->
                    [order_id |-> Text(k), user_id |-> Text(IF k = 3 THEN 21 ELSE 22),
                     date |-> DateStr(19732), amount |-> NumStr(10)]]
    /\ users = <<>>
    /\ withItems = FALSE /\ timeFrame = "day" /\ userId = Undefined
    /\ normalized = <<>> /\ renormalized = <<>> /\ series = NoSeries
    /\ features = <<>> /\ trends = NoTrends /\ customers = NoCustomers
    /\ passed = "array" /\ now = Today /\ raised = FALSE
    /\ grouped = <<>> /\ recs = NoRecs /\ last = "none"

NextPersonal ==
    \/ AddPersonalItem
    \/ last = "none" /\ CreateProductFeatures
    \/ last = "createProductFeatures" /\ GenerateRecommendations

SpecPersonal == InitPersonal /\ [][NextPersonal]_vars

-----------------------------------------------------------------------------
(* Claims checked under SpecPersonal *)

\* the co-occurrence counts listed for product pid in the common_purchases
\* of the products the customer purchased
CountsListedFor(pid) ==
    {FeatureOf(features, bought).common_purchases[c].count :
        <<bought, c>> \in {<<b, d>> \in PurchasedBy(userId) \X (1..TopCoPurchases) :
                              /\ d <= Len(FeatureOf(features, b).common_purchases)
                              /\ FeatureOf(features, b).common_purchases[d].id = pid}}

\* C21: the personalized result has at most 5 entries, holds each product id
\* at most once, is ordered by descending score, and the score of a product
\* is the maximum co-occurrence count of that product over the
\* common_purchases lists of all products the customer purchased.
C21_PersonalizedKeepsHighestScore ==
    (Personalized /\ withItems) =>
        /\ Len(recs.list) <= TopRecommendations
        /\ Cardinality(ListedIds(recs.list)) = Len(recs.list)
        /\ \A k \in 1..Len(recs.list) :
              /\ \A j \in 1..(k - 1) : recs.list[j].score >= recs.list[k].score
              /\ recs.list[k].score \in CountsListedFor(recs.list[k].id)
              /\ \A count \in CountsListedFor(recs.list[k].id) : recs.list[k].score >= count

\* C21 witness: six products were bought with those of the customer, one
\* of them once with product 11 and twice with product 12: five are
\* recommended, that one first with score 2
C21_Witness ==
    /\ Personalized /\ withItems
    /\ Len(items) = MaxPersonalItems
    /\ Len(recs.list) = TopRecommendations
    /\ recs.list[1].id = Text(15) /\ recs.list[1].score = 2
    /\ CountsListedFor(Text(15)) = {1, 2}

-----------------------------------------------------------------------------
(* Specification SpecGroups: records whose item_id is absent, empty, the     *)
(* number 0 or 1, or a text, numbered by their quantity, and their grouping *)
(* by item_id                                                               *)

MaxGrouped == 3

KeyValues == {Undefined, EmptyStr, Num(0), Num(1), Text(1), Text(2)}

AddKeyedRecord ==
    /\ last = "none"
    /\ Len(records) < MaxGrouped
    /\ \E key \in KeyValues :
          records' = Append(records, [item_id |-> key, date |-> DateStr(19732),
                                      quantity |-> Num(Len(records) + 1)])
    /\ UNCHANGED <<items, orders, withItems, timeFrame, userId, normalized,
                   renormalized, series, features, trends, customers, users,
                   grouped, recs, passed, now, raised, last>>

NextGroups == AddKeyedRecord \/ (last = "none" /\ GroupDataBy)

SpecGroups == Blank /\ [][NextGroups]_vars

-----------------------------------------------------------------------------
(* Claims checked under SpecGroups *)

\* the record has the key field
HasKey(record) == record.item_id.t # "undefined"

\* the places <<group, position>> at which the record is found in the groups
PlacesOf(record) ==
    {place \in (1..Len(grouped)) \X (1..Len(records)) :
        /\ place[2] <= Len(grouped[place[1]].items)
        /\ grouped[place[1]].items[place[2]] = record}

\* C22: groupDataBy partitions the records that have the key field: each
\* record with a present key value (0 and the empty string included) is in
\* exactly one group, the one named by its stringified key value, the groups
\* keep the input order of their records, and only records without the key
\* field are left out.
C22_GroupsPartitionKeyedRecords ==
    last = "groupDataBy" =>
        /\ \A i \in 1..Len(records) :
              IF HasKey(records[i])
              THEN /\ Cardinality(PlacesOf(records[i])) = 1
                   /\ \A place \in PlacesOf(records[i]) :
                          grouped[place[1]].id = PropertyKey(records[i].item_id)
              ELSE PlacesOf(records[i]) = {}
        /\ \A g \in 1..Len(grouped) : \A j, k \in 1..Len(grouped[g].items) :
              j < k => grouped[g].items[j].quantity.v < grouped[g].items[k].quantity.v

-----------------------------------------------------------------------------
(* Specification SpecFields: item records with the id, name and code fields  *)
(* of the sheets, each holding a numeric-looking string or a text, and      *)
(* their normalisation                                                      *)

MaxFieldRecords == 1

FieldValues == {NumStr(42), Text(1)}

FieldRecords ==
    [order_id : FieldValues, item_id : FieldValues, item_name : FieldValues,
     external_id : FieldValues, referral_code : FieldValues, quantity : FieldValues]

AddFieldRecord ==
    /\ last = "none"
    /\ Len(records) < MaxFieldRecords
    /\ \E r \in FieldRecords : records' = Append(records, r)
    /\ UNCHANGED <<items, orders, withItems, timeFrame, userId, normalized,
                   renormalized, series, features, trends, customers, users,
                   grouped, recs, passed, now, raised, last>>

NextFields == AddFieldRecord \/ (last = "none" /\ NormalizeData)

SpecFields == Blank /\ [][NextFields]_vars

-----------------------------------------------------------------------------
(* Claims checked under SpecFields *)

\* the field names that end in '_id' or contain 'name' or 'code'
IdentifierLike == {"order_id", "item_id", "external_id", "item_name", "referral_code"}

\* C23: normalizeData converts a numeric-looking string to a number only in
\* a field whose name is not identifier-like: a field whose name ends in
\* '_id' (order_id, user_id, item_id, external_id) or contains 'name' or
\* 'code' keeps its raw string value.
C23_IdentifierFieldsKeepStrings ==
    (last = "normalizeData" /\ ~raised) =>
        \A i \in 1..Len(records) : \A f \in DOMAIN records[i] :
            IF f \in IdentifierLike THEN normalized[i][f] = records[i][f]
            ELSE normalized[i][f] = (IF records[i][f].t = "numstr"
                                     THEN Num(records[i][f].v) ELSE records[i][f])

-----------------------------------------------------------------------------
(* Specification SpecDefaults: item records of two products whose quantity   *)
(* and price may be missing or blank, the feature table and the trend       *)
(* analysis over them                                                       *)

MaxSparseItems == 2

SparseItems ==
    [order_id : {Text(1)}, item_id : {Text(11), Text(12)},
     quantity : {Undefined, EmptyStr, NumStr(3)}, price : {Undefined, EmptyStr, NumStr(5)},
     date : {DateStr(19732)}]

AddSparseItem ==
    /\ last = "none"
    /\ Len(items) < MaxSparseItems
    /\ \E item \in SparseItems : items' = Append(items, item)
    /\ UNCHANGED <<records, orders, withItems, timeFrame, userId, normalized,
                   renormalized, series, features, trends, customers, users,
                   grouped, recs, passed, now, raised, last>>

NextDefaults ==
    \/ AddSparseItem
    \/ last = "none" /\ CreateProductFeatures
    \/ last = "none" /\ AnalyzeProductTrends

SpecDefaults == InitTrends /\ [][NextDefaults]_vars

-----------------------------------------------------------------------------
(* Claims checked under SpecDefaults *)

\* the number the record gives for the field, or d when it gives none
GivenOr(item, field, d) == IF item[field].t = "numstr" THEN item[field].v ELSE d

\* the sum over the records of a product of the given quantity or 1
QuantityWithDefaults(pid) ==
    SumOf([k \in 1..Len(SalesOf(pid)) |-> GivenOr(SalesOf(pid)[k], "quantity", 1)] \o <<>>)

\* the sum over the records of a product of the given price or 0
PriceWithDefaults(pid) ==
    SumOf([k \in 1..Len(SalesOf(pid)) |-> GivenOr(SalesOf(pid)[k], "price", 0)] \o <<>>)

RevenueWithDefaults(pid) ==
    SumOf([k \in 1..Len(SalesOf(pid)) |->
              GivenOr(SalesOf(pid)[k], "price", 0) * GivenOr(SalesOf(pid)[k], "quantity", 1)]
          \o <<>>)

\* C24: no item record is dropped for a missing field: in
\* createProductFeatures and in the topProducts totals an item without
\* quantity adds 1 to the total quantity of its product, an item without
\* price adds 0 to the price sum / revenue, and each item counts once in
\* purchase_count.
C24_MissingFieldsTakeDefaults ==
    /\ last = "createProductFeatures" =>
          /\ ListedIds(features) = ProductsOfItems
          /\ \A k \in 1..Len(features) :
                /\ features[k].purchase_count = Len(SalesOf(features[k].id))
                /\ features[k].total_quantity = QuantityWithDefaults(features[k].id)
                /\ features[k].price_sum = PriceWithDefaults(features[k].id)
    /\ (last = "analyzeProductTrends" /\ Len(items) > 0) =>
          /\ ListedIds(trends.topProducts) = ProductsOfItems
          /\ \A k \in 1..Len(trends.topProducts) :
                /\ trends.topProducts[k].totalQuantity
                      = QuantityWithDefaults(trends.topProducts[k].id)
                /\ trends.topProducts[k].totalRevenue
                      = RevenueWithDefaults(trends.topProducts[k].id)

\* C24 witness: a product with a complete record and one without quantity
\* and price has purchase_count 2, total quantity 3 + 1 and price sum 5
C24_Witness ==
    /\ last = "createProductFeatures"
    /\ Len(items) = 2 /\ Len(features) = 1
    /\ items[1].quantity = NumStr(3) /\ items[1].price = NumStr(5)
    /\ items[2].quantity = Undefined /\ items[2].price = Undefined
    /\ features[1].purchase_count = 2
    /\ features[1].total_quantity = 4
    /\ features[1].price_sum = 5

-----------------------------------------------------------------------------
(* Specification SpecGaps: the orders of two customers on three days (the    *)
(* first, 30 days later, 45 days later), in any input order, and the         *)
(* customer analysis over them                                               *)

MaxGapOrders == 3

\* 2024-01-10, 2024-02-09, 2024-02-24
GapDays == {19732, 19732 + 30, 19732 + 45}

AddGapOrder ==
    /\ last = "none"
    /\ Len(orders) < MaxGapOrders
    /\ \E uid \in {Text(21), Text(22)} : \E d \in GapDays :
          orders' = Append(orders, [order_id |-> Text(Len(orders) + 1), user_id |-> uid,
                                    date |-> DateStr(d), amount |-> NumStr(10)])
    /\ UNCHANGED <<records, items, withItems, timeFrame, userId, normalized,
                   renormalized, series, features, trends, customers, users,
                   grouped, recs, passed, now, raised, last>>

NextGaps == AddGapOrder \/ (last = "none" /\ AnalyzeCustomerPatterns)

SpecGaps == InitCustomers /\ [][NextGaps]_vars

-----------------------------------------------------------------------------
(* Claims checked under SpecGaps *)

\* the days of the orders of a customer
OrderDaysOf(uid) == {orders[i].date.v : i \in {j \in 1..Len(orders) : orders[j].user_id = uid}}

OrderCountOf(uid) == Cardinality({j \in 1..Len(orders) : orders[j].user_id = uid})

FirstDayOf(uid) == CHOOSE d \in OrderDaysOf(uid) : \A e \in OrderDaysOf(uid) : d <= e
LastDayOf(uid) == CHOOSE d \in OrderDaysOf(uid) : \A e \in OrderDaysOf(uid) : d >= e

\* C25: avgDaysBetweenOrders of a customer is 0 with fewer than 2 orders and
\* otherwise the mean of the day gaps between consecutive orders in
\* chronological order (the days from the first to the last order, divided
\* by the number of gaps), whatever the input order of the records; orders
\* on day 0 and day 30 give 30, with orderCount 2.
C25_AverageGapIsChronological ==
    (last = "analyzeCustomerPatterns" /\ Len(orders) > 0) =>
        /\ ListedIds(customers.topCustomers) = {orders[i].user_id : i \in 1..Len(orders)}
        /\ \A k \in 1..Len(customers.topCustomers) :
              /\ customers.topCustomers[k].orderCount
                    = OrderCountOf(customers.topCustomers[k].id)
              /\ customers.topCustomers[k].avgDaysBetweenOrders.k = "finite"
              /\ customers.topCustomers[k].avgDaysBetweenOrders.n
                    * (OrderCountOf(customers.topCustomers[k].id) - 1)
                 = (LastDayOf(customers.topCustomers[k].id)
                      - FirstDayOf(customers.topCustomers[k].id))
                   * customers.topCustomers[k].avgDaysBetweenOrders.d
              /\ OrderCountOf(customers.topCustomers[k].id) < 2 =>
                    customers.topCustomers[k].avgDaysBetweenOrders.n = 0

\* C25 witness: a customer whose order of day 30 is recorded before the one
\* of day 0 has orderCount 2 and avgDaysBetweenOrders 30
C25_Witness ==
    /\ last = "analyzeCustomerPatterns"
    /\ Len(orders) = 2
    /\ orders[1].user_id = orders[2].user_id
    /\ orders[1].date = DateStr(19732 + 30) /\ orders[2].date = DateStr(19732)
    /\ customers.topCustomers[1].orderCount = 2
    /\ customers.topCustomers[1].avgDaysBetweenOrders = Ratio(30, 1)

-----------------------------------------------------------------------------
(* Further claims checked under SpecFeatures *)

\* the count listed for product b in the common_purchases of the k-th
\* feature, as a set: empty when b is not listed
CountsOf(k, b) ==
    {features[k].common_purchases[c].count :
        c \in {d \in 1..Len(features[k].common_purchases) :
                  features[k].common_purchases[d].id = b}}

\* C26: co-occurrence is symmetric: when B is listed in A's common_purchases
\* with count c and A in B's with count c', then c = c'; and no product is
\* listed in its own common_purchases.
C26_CoOccurrenceIsSymmetric ==
    FeaturesBuilt =>
        \A j, k \in 1..Len(features) :
            /\ CountsOf(k, features[k].id) = {}
            /\ \A c \in CountsOf(j, features[k].id) :
                  \A d \in CountsOf(k, features[j].id) : c = d

\* C26 witness: two records of one product and one of another in the same
\* order: each product lists the other with count 2
C26_Witness ==
    /\ FeaturesBuilt
    /\ Len(features) = 2
    /\ CountsOf(1, features[2].id) = {2}
    /\ CountsOf(2, features[1].id) = {2}

-----------------------------------------------------------------------------
(* Claims about the reported numbers, checked under SpecTrends *)

\* C27: every growthRate reported in growingProducts or decliningProducts and
\* every priceChangePercent reported in priceTrends is a finite decimal
\* number, also when the first monthly bucket of a product has quantity sum
\* 0 or average price 0.
C27_ReportedRatesAreFinite ==
    last = "analyzeProductTrends" =>
        /\ \A k \in 1..Len(trends.growingProducts) :
              trends.growingProducts[k].growthRate.k = "finite"
        /\ \A k \in 1..Len(trends.decliningProducts) :
              trends.decliningProducts[k].growthRate.k = "finite"
        /\ \A k \in 1..Len(trends.priceTrends) :
              trends.priceTrends[k].priceChangePercent.k = "finite"

\* the sum fields of the monthly buckets of a listed product, added up
BucketTotal(entry) ==
    SumOf([m \in 1..Len(entry.monthlySales) |-> entry.monthlySales[m].sum] \o <<>>)

\* the entry agrees with the total quantity that topProducts gives its product
AgreesWithTopProducts(entry) ==
    \A k \in 1..Len(trends.topProducts) :
        trends.topProducts[k].id = entry.id =>
            trends.topProducts[k].totalQuantity = BucketTotal(entry)

\* C28: within one analyzeProductTrends call the two quantity aggregations
\* agree: for a product all of whose records carry a date, the sum fields of
\* its monthly sales buckets add up to its totalQuantity in topProducts,
\* also when some of its records have no quantity or quantity 0.
C28_QuantityAggregationsAgree ==
    last = "analyzeProductTrends" =>
        /\ \A k \in 1..Len(trends.growingProducts) :
              AgreesWithTopProducts(trends.growingProducts[k])
        /\ \A k \in 1..Len(trends.decliningProducts) :
              AgreesWithTopProducts(trends.decliningProducts[k])

-----------------------------------------------------------------------------
(* Specification SpecJoin: item records of two orders, then the feature      *)
(* table built from them any number of times while the caller passes        *)
(* different order collections                                              *)

MaxJoinItems == 2

\* no order, one of the two orders, or both
OrderCollections ==
    {<<>>} \cup {<<order>> : order \in OrderRecords}
           \cup {<<[order_id |-> Text(1), user_id |-> Text(21), date |-> DateStr(19732),
                    amount |-> NumStr(10)],
                   [order_id |-> Text(2), user_id |-> Text(22), date |-> DateStr(19732),
                    amount |-> NumStr(10)]>>}

AddJoinItem ==
    /\ last = "none"
    /\ Len(items) < MaxJoinItems
    /\ \E item \in ItemRecords : items' = Append(items, item)
    /\ UNCHANGED <<records, orders, withItems, timeFrame, userId, normalized,
                   renormalized, series, features, trends, customers, users,
                   grouped, recs, passed, now, raised, last>>

\* the caller takes another collection of orders for the next call
ReplaceOrders ==
    /\ \E collection \in OrderCollections \ {orders} : orders' = collection
    /\ UNCHANGED <<records, items, withItems, timeFrame, userId, normalized,
                   renormalized, series, features, trends, customers, users,
                   grouped, recs, passed, now, raised, last>>

NextJoin ==
    \/ AddJoinItem
    \/ ReplaceOrders
    \/ Len(items) > 0 /\ CreateProductFeatures

SpecJoin == Blank /\ [][NextJoin]_vars

-----------------------------------------------------------------------------
(* Claims checked under SpecJoin *)

\* a call of createProductFeatures on the same items as the call before it
\* returns the table that call returned, and its purchase counts are the
\* numbers of records of the products, whatever orders are present
FeaturesIgnoreOrders ==
    last' = "createProductFeatures" =>
        /\ (last = "createProductFeatures" /\ items' = items) => features' = features
        /\ \A k \in 1..Len(features') :
              features'[k].purchase_count
                  = Cardinality({i \in 1..Len(items') : items'[i].item_id = features'[k].id})

\* C29: the result of createProductFeatures(items, orders) does not depend on
\* the content of orders: for the same items and any two order collections
\* (an empty one and one without the orders of the items included) the
\* feature tables are equal, and item records whose order is not present
\* are counted like any other.
C29_FeaturesDoNotDependOnOrders == [][FeaturesIgnoreOrders]_vars

\* C29 witness: a feature table with a co-purchase, built from two records
\* of an order while no order at all was passed
C29_Witness ==
    /\ last = "createProductFeatures"
    /\ orders = <<>>
    /\ Len(items) = 2 /\ Len(features) = 2
    /\ Len(features[1].common_purchases) = 1

-----------------------------------------------------------------------------
(* Specification SpecBands: the orders of customer 21 and then of customer   *)
(* 22, twelve at most; the first two orders of a customer fall in January   *)
(* or February in either order, the later ones in February; and the         *)
(* customer analysis over them                                              *)

MaxBandOrders == 12

\* the customer of the latest order (21 before any)
LatestCustomer == IF Len(orders) = 0 THEN 21 ELSE orders[Len(orders)].user_id.v

\* the days an order of the customer may have: 2024-01-10 or 2024-02-01
BandDays(uid) ==
    IF Cardinality({j \in 1..Len(orders) : orders[j].user_id = Text(uid)}) < 2
    THEN {19732, 19754} ELSE {19754}

AddBandOrder ==
    /\ last = "none"
    /\ Len(orders) < MaxBandOrders
    /\ \E uid \in {LatestCustomer, Min2(LatestCustomer + 1, 22)} : \E d \in BandDays(uid) :
          orders' = Append(orders, [order_id |-> Text(Len(orders) + 1), user_id |-> Text(uid),
                                    date |-> DateStr(d), amount |-> NumStr(10)])
    /\ UNCHANGED <<records, items, withItems, timeFrame, userId, normalized,
                   renormalized, series, features, trends, customers, users,
                   grouped, recs, passed, now, raised, last>>

NextBands == AddBandOrder \/ (last = "none" /\ AnalyzeCustomerPatterns)

SpecBands == InitCustomers /\ [][NextBands]_vars

-----------------------------------------------------------------------------
(* Claims checked under SpecBands *)

CustomersOfOrders == {orders[i].user_id : i \in 1..Len(orders)}

\* the numbers of orders that the band of this name stands for
BandOrders(name) ==
    CASE name = "1 order" -> {1}
      [] name = "2-3 orders" -> 2..3
      [] name = "4-6 orders" -> 4..6
      [] name = "7-10 orders" -> 7..10
      [] name = "10+ orders" -> 11..(MaxBandOrders + 1)

\* C30: every customer is accounted for exactly once: the newCustomers of
\* the retention cohorts and the counts of the five purchase-frequency bands
\* both add up to the number of distinct user_id values among the orders,
\* each customer counted in the cohort of the month of their earliest order
\* and in the band of their number of orders (1; 2-3; 4-6; 7-10; more than
\* 10).
C30_EveryCustomerCountedOnce ==
    (last = "analyzeCustomerPatterns" /\ Len(orders) > 0) =>
        /\ SumOf([k \in 1..Len(customers.customerRetention) |->
                     customers.customerRetention[k].newCustomers])
              = Cardinality(CustomersOfOrders)
        /\ SumOf([k \in 1..Len(customers.purchaseFrequency) |->
                     customers.purchaseFrequency[k].count])
              = Cardinality(CustomersOfOrders)
        /\ \A j, k \in 1..Len(customers.customerRetention) :
              j # k => customers.customerRetention[j].cohort
                         # customers.customerRetention[k].cohort
        /\ \A k \in 1..Len(customers.customerRetention) :
              customers.customerRetention[k].newCustomers
                  = Cardinality({uid \in CustomersOfOrders :
                                    MonthKey(DateObj(FirstDayOf(uid)))
                                        = customers.customerRetention[k].cohort})
        /\ Len(customers.purchaseFrequency) = 5
        /\ \A k \in 1..Len(customers.purchaseFrequency) :
              customers.purchaseFrequency[k].count
                  = Cardinality({uid \in CustomersOfOrders :
                                    OrderCountOf(uid)
                                        \in BandOrders(customers.purchaseFrequency[k].frequency)})

\* C30 witness: a customer with eleven orders whose first recorded order is
\* of February and whose second is of January, and a customer with one order
\* of February: one customer in each cohort, one in the band of a single
\* order and one in the band of more than 10
C30_Witness ==
    /\ last = "analyzeCustomerPatterns"
    /\ OrderCountOf(Text(21)) = 11 /\ OrderCountOf(Text(22)) = 1
    /\ orders[1].date = DateStr(19754) /\ orders[2].date = DateStr(19732)
    /\ Len(customers.customerRetention) = 2
    /\ customers.customerRetention[1].newCustomers = 1
    /\ customers.purchaseFrequency[1].count = 1
    /\ customers.purchaseFrequency[5].count = 1

====
